---------------------------- MODULE Spec2Model ----------------------------
(***************************************************************************)
(* Model of the UpdateOTA library (ESP32 over-the-air update).             *)
(*                                                                         *)
(*   Spec         Updater::startUpdate (src/src/Downloader.cpp): the space *)
(*                check, the partition selection, the block loop and the   *)
(*                boot switch, one action per platform or stream call.     *)
(*   SpecVersion  UpdateOTA::newerVersion (src/unnamed/part_002).          *)
(*   SpecFacade   the facade UpdateOTA (src/unnamed/part_002).              *)
(*   SpecMono     the monolithic UpdateOTA (src/lib/UpdateOTA).            *)
(*   SpecDownloader  Downloader (src/src/Downloader.cpp).                  *)
(*   SpecClients  Downloader with its URLs set: setCA, the clients of      *)
(*                successive requests, the destructor.                     *)
(*   SpecLoop     Spec on a device with both partitions present.           *)
(*   SpecData     Spec with the size of the data partition followed.       *)
(*   SpecLive, SpecMonoLive  Spec and SpecMono with the fairness of a      *)
(*                sequential program, for the termination properties.      *)
(*                                                                         *)
(* 32-bit unsigned values are kept as their 32-bit two's complement        *)
(* pattern (a negative integer stands for a value of 2^31 or more), and    *)
(* ULt compares two such patterns as the unsigned comparison does.         *)
(***************************************************************************)
EXTENDS Integers, Sequences, FiniteSets, TLC

\* ------------------------------------------------------------------ bounds
\* The largest image has MaxBlocks full blocks.
MaxBlocks == 3

\* How many reads of one startUpdate call may return fewer bytes than asked.
MaxShortReads == 1

\* ------------------------------------------------------- program constants
BLOCK_SIZE_P == 4096

\* The read ceiling of readBlockFirmwareToBuffer.
READ_RETRIES == 30

\* ------------------------------------------------------------------ inputs
\* Stream lengths: no block, a partial block, whole blocks, whole blocks and
\* a tail (10000 = 2 * 4096 + 1808), and -1 (a length the transport does not
\* know, as an int).
Residues == {0, 1808, BLOCK_SIZE_P}

StreamLengths ==
    {-1} \cup {k * BLOCK_SIZE_P + r : k \in 0 .. (MaxBlocks - 1), r \in Residues}

\* Values of ESP.getFreeSketchSpace().
FreeSpaces == {0, 8191, 12288, 16401}

\* The byte count of a read that returns fewer bytes than asked.
ShortLen == 1000

\* Sizes of the data partition: one block, two blocks, and the spiffs
\* partition of the default partition table, larger than every image here.
DefaultDataSize == 1507328

DataSizes == {BLOCK_SIZE_P, 2 * BLOCK_SIZE_P, DefaultDataSize}

UpdaterTypes == {"FIRMWARE", "SPIFFS", "OTHER"}

VARIABLES
    freeSketchSpace,   \* ESP.getFreeSketchSpace()
    appPart,           \* esp_ota_get_next_update_partition(NULL) # NULL
    spiffsPart,        \* esp_partition_find_first(DATA, SPIFFS) # NULL
    dataSize,          \* the size of that data partition
    cb,                \* which of _onStart_cb .. _onError_cb are set
    streamLength,      \* _streamLength
    updType,           \* type
    newPartition,      \* _newPartition
    maxSketchSpace,    \* local of startUpdate
    written,           \* local of startUpdate
    toWrite,           \* local of startUpdate
    length,            \* local of readBlockFirmwareToBuffer
    readed,            \* local of readBlockFirmwareToBuffer
    retry,             \* local of readBlockFirmwareToBuffer
    shortReads,        \* short reads the stream has made in this call
    pc,                \* position of startUpdate
    ret,               \* what startUpdate returned
    trace,             \* the calls startUpdate made, in order
    buffer,            \* the followed bytes of _buffer
    curMem,            \* memory at _currentVersion
    srvMem,            \* memory at _serverVersion
    curFields,         \* majorCurrentVersion, minorCurrentVersion, patchCurrentVersion
    srvFields,         \* majorServerVersion, minorServerVersion, patchServerVersion
    vpc,               \* position of newerVersion
    result,            \* what newerVersion returned
    cACertificate,     \* strlen of UpdateOTA::_cACertificate
    fop,               \* the running method of the facade UpdateOTA
    urlArg,            \* its urlFirmware / url argument
    urlVersionArg,     \* its urlVersion argument
    currentVersion,    \* memory at its currentVersion argument
    versionDist,       \* memory at versionDist after getVersion
    fpc,               \* position of the running method
    calls,             \* the calls it made on _downloader and _updater, with results
    fret,              \* what it returned
    monoOp,            \* the running method of the monolithic UpdateOTA
    wifiStatus,        \* WiFi.status() at its call
    isFirmware,        \* _isFirmware
    bufferSize,        \* the bufferSize argument of getVersionNumber
    httpCode,          \* _httpCode
    httpSize,          \* _httpClient->getSize()
    monoPartition,     \* _newPartition
    monoWritten,       \* written of updateFirmware
    monoToWrite,       \* toWrite of updateFirmware
    monoIter,          \* iterations of the loop of updateFirmware recorded in monoTrace
    monoPc,            \* position of the running method
    monoRet,           \* what it returned
    monoTrace,         \* the network, partition and buffer calls it made
    uRLForBinFile,     \* Downloader::_uRLForBinFile
    uRLForVersionFile, \* Downloader::_uRLForVersionFile
    urlGiven,          \* the argument of the last setURLForBin / setURLForVersion
    bufGiven,          \* whether the versionDis argument of getVersion is not null
    streamSize,        \* _streamSize
    versionDis,        \* the maxLen bytes at versionDis after getVersion
    maxLenArg,         \* the maxLen argument of getVersion
    requests,          \* download and getVersion calls so far
    setCalls,          \* calls of the set methods so far
    wifiClients,       \* WiFi clients CreateWifiClient allocated that are not deleted
    httpClients,       \* HTTP clients CreateHttpClient allocated that are not deleted
    dop,               \* the last method called on the Downloader
    dpc,               \* position of the running method
    dret,              \* what the last method returned
    dtrace,            \* the client calls the last method made
    timeOut,           \* Downloader::_timeOut
    timeOutArg,        \* the argument of the last setTimeout, as the caller wrote it
    downloaderCA,      \* Downloader::_cACertificate, block by block
    caGiven            \* the argument of the last setCA

updVars ==
    <<freeSketchSpace, appPart, spiffsPart, dataSize, cb, streamLength, updType,
      newPartition, maxSketchSpace, written, toWrite, length, readed, retry,
      shortReads, pc, ret, trace, buffer>>

verVars == <<curMem, srvMem, curFields, srvFields, vpc, result>>

facVars ==
    <<cACertificate, fop, urlArg, urlVersionArg, currentVersion, versionDist,
      fpc, calls, fret>>

monoVars ==
    <<monoOp, wifiStatus, isFirmware, bufferSize, httpCode, httpSize, monoPartition,
      monoWritten, monoToWrite, monoIter, monoPc, monoRet, monoTrace>>

dlVars ==
    <<uRLForBinFile, uRLForVersionFile, urlGiven, bufGiven, streamSize, versionDis, maxLenArg, requests,
      setCalls, wifiClients, httpClients, dop, dpc, dret, dtrace, timeOut, timeOutArg,
      downloaderCA, caGiven>>

extVars == <<facVars, monoVars, dlVars>>

vars == <<updVars, verVars, extVars>>

\* --------------------------------------------------------------- Updater
\* Unsigned comparison of two 32-bit patterns.
ULt(a, b) == IF (a < 0) = (b < 0) THEN a < b ELSE b < 0

\* One call made by startUpdate: a platform call with its offset a, its length b
\* and whether the platform accepted it, or a user callback with its arguments.
Event(op, a, b, ok, code) == [op |-> op, a |-> a, b |-> b, ok |-> ok, code |-> code]

MaxSketchSpaceUnrounded(free) == free

MaxSketchSpace(free) == free - (free % BLOCK_SIZE_P)

NoSpace(len, max) == ULt(max, len)

getAPPUpdatePartitionIgnoreNull(present) == "OK"

getAPPUpdatePartition(present) ==
    IF present THEN "OK" ELSE "NO_PARTITION_AVAILABLE"

getSPIFFSPartition(present) ==
    IF present THEN "OK" ELSE "NO_PARTITION_AVAILABLE"

SelectPartition(type, app, spiffs) ==
    IF type = "FIRMWARE" THEN getAPPUpdatePartition(app)
    ELSE IF type = "SPIFFS" THEN getSPIFFSPartition(spiffs)
    ELSE "UNKNOWN"

SelectedPartition(type, app, spiffs) ==
    IF type = "FIRMWARE" THEN (IF app THEN "app" ELSE "none")
    ELSE IF type = "SPIFFS" THEN (IF spiffs THEN "spiffs" ELSE "none")
    ELSE "none"

LoopCondOffByBlock(w, len) == ULt(w + BLOCK_SIZE_P, len)

LoopCond(w, len) == ULt(w, len)

BlockLengthNoTail(len, offset, n) == n

BlockLength(len, offset, n) ==
    IF ULt(len, offset + n) THEN len - offset ELSE n

RetryAgainOneMore(r, n) == r = 0 /\ n < READ_RETRIES + 1

RetryAgain(r, n) == r = 0 /\ n < READ_RETRIES

LookAheadNoCapacityTest(len, w, max) == len = w + BLOCK_SIZE_P

LookAhead(len, w, max) ==
    len = w + BLOCK_SIZE_P /\ ULt(len, max - BLOCK_SIZE_P)

resetPartitionRangeIgnoreError(ok) == "OK"

resetPartitionRange(ok) == IF ok THEN "OK" ELSE "UNKNOWN"

writeBlockIgnoreError(ok) == "OK"

writeBlockBufferToPartition(ok) ==
    IF ok THEN "OK" ELSE "PARTITION_WRITE_FAILED"

changeBootIgnoreError(ok) == "OK"

changeBootPartition(ok) ==
    IF ok THEN "OK" ELSE "CHANGE_BOOT_PARTITION_FAILED"

NeedsBootSwitchAlways(type) == TRUE

NeedsBootSwitch(type) == type = "FIRMWARE"

\* The user callbacks a call of callOnStart .. callOnError invokes.
Call(set, ev) == IF set THEN <<ev>> ELSE <<>>

callOnStartNever == <<>>

callOnStart == Call(cb.onStart, Event("onStart", 0, 0, TRUE, "OK"))

callOnProgress(w, len) == Call(cb.onProgress, Event("onProgress", w, len, TRUE, "OK"))

callOnEndNever == <<>>

callOnEnd == Call(cb.onEnd, Event("onEnd", 0, 0, TRUE, "OK"))

callOnError(e) == Call(cb.onError, Event("onError", 0, 0, TRUE, e))

\* The bytes of _buffer that are followed (indexes from 1): the first, the
\* one after a short read, the one after the tail of a 10000-byte image, the
\* last.  A byte is -1 while nothing has set it, 0 when it is zero, and k when
\* it is the k-th byte of the stream.
BufferSamples == {1, ShortLen + 1, 1809, BLOCK_SIZE_P}

UnsetBuffer == [i \in BufferSamples |-> -1]

resetBufferNothing(buf, n) == buf

resetBuffer(buf, n) == [i \in BufferSamples |-> IF i <= n THEN 0 ELSE buf[i]]

\* readBytes(_buffer, ...) that returned n bytes, with pos bytes of the stream
\* taken before it.
readBytes(buf, n, pos) == [i \in BufferSamples |-> IF i <= n THEN pos + i ELSE buf[i]]

\* What esp_partition_erase_range and esp_partition_write on _newPartition
\* may answer for the range [off, off + n): a range that does not lie in the
\* data partition is refused, any other call is accepted or fails.
PartitionOutcomes(off, n) ==
    IF newPartition = "spiffs" /\ off + n > dataSize THEN {FALSE} ELSE BOOLEAN

\* What the stream's readBytes(_buffer, n) may return.
ReadOutcomes(n) ==
    {0, n} \cup (IF shortReads < MaxShortReads /\ ShortLen < n THEN {ShortLen} ELSE {})

\* The facade UpdateOTA before any of its methods is called.
NullPtr == "nullptr"

\* A const char * version argument: null, or the memory it points at.
NullVersion == [null |-> TRUE, mem |-> <<>>]

VersionAt(m) == [null |-> FALSE, mem |-> m]

IdleFacade ==
    /\ fop = "none"
    /\ urlArg = NullPtr
    /\ urlVersionArg = NullPtr
    /\ currentVersion = NullVersion
    /\ versionDist = <<>>
    /\ fpc = "idle"
    /\ calls = <<>>
    /\ fret = "NONE"

\* The monolithic UpdateOTA after its constructor.
IdleMono ==
    /\ monoOp = "none"
    /\ wifiStatus = "WL_IDLE_STATUS"
    /\ isFirmware = FALSE
    /\ bufferSize = 0
    /\ httpCode = 0
    /\ httpSize = 0
    /\ monoPartition = "none"
    /\ monoWritten = 0
    /\ monoToWrite = 0
    /\ monoIter = 0
    /\ monoPc = "idle"
    /\ monoRet = "NONE"
    /\ monoTrace = <<>>

URL_MAX_LENGTH == 256

CA_MAX_LENGTH == 4096

\* A const char * URL argument: null, or the string it points at.
NullURL == [null |-> TRUE, str |-> <<>>]

URLAt(s) == [null |-> FALSE, str |-> s]

\* A byte whose value nothing has set.
Unset == "?"

\* The Downloader after its constructor: the first byte of each URL buffer
\* is the terminator, the other URL_MAX_LENGTH bytes are not set.
EmptyURLBuffer == [i \in 1 .. URL_MAX_LENGTH + 1 |-> IF i = 1 THEN "NUL" ELSE Unset]

\* _cACertificate has CA_MAX_LENGTH + 1 bytes and is followed block by block:
\* a block is named by its first index (from 1) and runs to the byte before
\* the next block, the last one to the end of the array.  Every certificate
\* that is copied ends at a block boundary, so the bytes of one block always
\* hold the same character.
CABlocks == {1, 2, 3, CA_MAX_LENGTH}

\* _cACertificate after the constructor: the first byte is the terminator and
\* the other bytes hold t, what the memory of the object held (zeros, or
\* bytes nothing has set).
EmptyCABuffer(t) == [i \in CABlocks |-> IF i = 1 THEN "NUL" ELSE t]

\* A const char * certificate argument: null, or a string of len characters
\* fill.
NullCert == [null |-> TRUE, len |-> 0, fill |-> "NUL"]

CertAt(n, c) == [null |-> FALSE, len |-> n, fill |-> c]

RestOfDownloader ==
    /\ urlGiven = NullURL
    /\ caGiven = NullCert
    /\ bufGiven = FALSE
    /\ streamSize = 0
    /\ versionDis = <<>>
    /\ maxLenArg = 0
    /\ requests = 0
    /\ setCalls = 0
    /\ wifiClients = 0
    /\ httpClients = 0
    /\ dop = "none"
    /\ dpc = "idle"
    /\ dret = "NONE"
    /\ dtrace = <<>>
    /\ timeOut = 8000
    /\ timeOutArg = 0

IdleDownloader ==
    /\ uRLForBinFile = EmptyURLBuffer
    /\ uRLForVersionFile = EmptyURLBuffer
    /\ downloaderCA = EmptyCABuffer(Unset)
    /\ RestOfDownloader

\* No Downloader has been constructed.
NoDownloader ==
    /\ uRLForBinFile = <<>>
    /\ uRLForVersionFile = <<>>
    /\ downloaderCA = <<>>
    /\ RestOfDownloader

InitExt == cACertificate = 0 /\ IdleFacade /\ IdleMono /\ NoDownloader

InitPlatform ==
    /\ freeSketchSpace \in FreeSpaces
    /\ appPart \in BOOLEAN
    /\ spiffsPart \in BOOLEAN
    /\ dataSize = DefaultDataSize

\* The Updater after its constructor.
InitUpdater ==
    /\ cb = [onStart |-> FALSE, onProgress |-> FALSE, onEnd |-> FALSE, onError |-> FALSE]
    /\ streamLength = 0
    /\ updType = "FIRMWARE"
    /\ newPartition = "none"
    /\ maxSketchSpace = 0
    /\ written = 0
    /\ toWrite = 0
    /\ length = 0
    /\ readed = 0
    /\ retry = 0
    /\ shortReads = 0
    /\ pc = "idle"
    /\ ret = "NONE"
    /\ trace = <<>>
    /\ buffer = UnsetBuffer

InitVersion ==
    /\ curMem = <<>>
    /\ srvMem = <<>>
    /\ curFields = <<>>
    /\ srvFields = <<>>
    /\ vpc = "idle"
    /\ result = FALSE

Init == InitPlatform /\ InitUpdater /\ InitVersion /\ InitExt

\* _abort: the error callback, then the error is returned.
Abort(e, tr) ==
    /\ trace' = tr \o callOnError(e)
    /\ ret' = e
    /\ pc' = "returned"

\* The loop test of startUpdate with w bytes written: one more iteration, which
\* starts with the call of readBlockFirmwareToBuffer(w, BLOCK_SIZE_P), or the
\* code after the loop.
LoopTest(w, len, tr) ==
    IF LoopCond(w, len)
    THEN /\ pc' = "read"
         /\ length' = BlockLength(len, w, BLOCK_SIZE_P)
         /\ readed' = 0
         /\ retry' = 0
         /\ trace' = Append(tr, Event("readBlock", w, BlockLength(len, w, BLOCK_SIZE_P), TRUE, "OK"))
         /\ buffer' = resetBuffer(buffer, BLOCK_SIZE_P)
    ELSE /\ pc' = "boot"
         /\ trace' = tr
         /\ UNCHANGED <<length, readed, retry, buffer>>

setOnStartFunc ==
    /\ pc = "idle"
    /\ \E f \in BOOLEAN : cb' = [cb EXCEPT !.onStart = f]
    /\ UNCHANGED <<freeSketchSpace, appPart, spiffsPart, dataSize, streamLength, updType,
                   newPartition, maxSketchSpace, written, toWrite, length, readed,
                   retry, shortReads, pc, ret, trace, buffer, verVars, extVars>>

setOnProgressFunc ==
    /\ pc = "idle"
    /\ \E f \in BOOLEAN : cb' = [cb EXCEPT !.onProgress = f]
    /\ UNCHANGED <<freeSketchSpace, appPart, spiffsPart, dataSize, streamLength, updType,
                   newPartition, maxSketchSpace, written, toWrite, length, readed,
                   retry, shortReads, pc, ret, trace, buffer, verVars, extVars>>

setOnEndFunc ==
    /\ pc = "idle"
    /\ \E f \in BOOLEAN : cb' = [cb EXCEPT !.onEnd = f]
    /\ UNCHANGED <<freeSketchSpace, appPart, spiffsPart, dataSize, streamLength, updType,
                   newPartition, maxSketchSpace, written, toWrite, length, readed,
                   retry, shortReads, pc, ret, trace, buffer, verVars, extVars>>

setOnErrorFunc ==
    /\ pc = "idle"
    /\ \E f \in BOOLEAN : cb' = [cb EXCEPT !.onError = f]
    /\ UNCHANGED <<freeSketchSpace, appPart, spiffsPart, dataSize, streamLength, updType,
                   newPartition, maxSketchSpace, written, toWrite, length, readed,
                   retry, shortReads, pc, ret, trace, buffer, verVars, extVars>>

\* startUpdate up to the first stream read: the space check, the partition
\* selection, onStart, onProgress(0, streamLength) and the first loop test.
\* callOnProgress divides by streamLength to log the percentage: with
\* streamLength = 0 the division is undefined, and the call either goes on or
\* the device traps.
StartUpdateOK(len, type) ==
    /\ ~NoSpace(len, MaxSketchSpace(freeSketchSpace))
    /\ SelectPartition(type, appPart, spiffsPart) = "OK"
    /\ written' = 0
    /\ toWrite' = 0
    /\ \/ /\ LoopTest(0, len, trace \o callOnStart \o callOnProgress(0, len))
          /\ ret' = ret
       \/ /\ len = 0
          /\ pc' = "crashed"
          /\ trace' = trace \o callOnStart
          /\ UNCHANGED <<length, readed, retry, ret, buffer>>

StartUpdateAbort(len, type) ==
    /\ \/ /\ NoSpace(len, MaxSketchSpace(freeSketchSpace))
          /\ Abort("NO_ENOUGH_SPACE", trace)
          /\ newPartition' = newPartition
       \/ /\ ~NoSpace(len, MaxSketchSpace(freeSketchSpace))
          /\ SelectPartition(type, appPart, spiffsPart) # "OK"
          /\ Abort(SelectPartition(type, appPart, spiffsPart), trace)
          /\ newPartition' = SelectedPartition(type, appPart, spiffsPart)
    /\ UNCHANGED <<written, toWrite, length, readed, retry, buffer>>

StartUpdate ==
    /\ pc = "idle"
    /\ \E len \in StreamLengths, type \in UpdaterTypes :
         /\ streamLength' = len
         /\ updType' = type
         /\ maxSketchSpace' = MaxSketchSpace(freeSketchSpace)
         /\ \/ /\ StartUpdateOK(len, type)
               /\ newPartition' = SelectedPartition(type, appPart, spiffsPart)
            \/ StartUpdateAbort(len, type)
    /\ UNCHANGED <<freeSketchSpace, appPart, spiffsPart, dataSize, cb, shortReads, verVars, extVars>>

\* One _streamData->readBytes(_buffer, length) of readBlockFirmwareToBuffer,
\* and, when it was the last one of the block, the return to startUpdate.
ReadBytes ==
    /\ pc = "read"
    /\ \E n \in ReadOutcomes(length) :
         /\ readed' = n
         /\ buffer' = readBytes(buffer, n, written)
         /\ retry' = retry + 1
         /\ shortReads' = IF n # 0 /\ n < length THEN shortReads + 1 ELSE shortReads
         /\ IF RetryAgain(n, retry + 1)
            THEN UNCHANGED <<pc, toWrite, ret, trace>>
            ELSE /\ toWrite' = n
                 /\ IF n <= 0
                    THEN Abort("READ_FAILED", trace)
                    ELSE /\ pc' = "erase"
                         /\ UNCHANGED <<ret, trace>>
    /\ UNCHANGED <<freeSketchSpace, appPart, spiffsPart, dataSize, cb, streamLength, updType,
                   newPartition, maxSketchSpace, written, length, verVars, extVars>>

\* resetPartitionRange(written, BLOCK_SIZE_P).
EraseRange ==
    /\ pc = "erase"
    /\ \E ok \in PartitionOutcomes(written, BLOCK_SIZE_P) :
         LET tr == Append(trace, Event("erase", written, BLOCK_SIZE_P, ok, "OK")) IN
         IF resetPartitionRange(ok) # "OK"
         THEN Abort(resetPartitionRange(ok), tr)
         ELSE /\ pc' = IF LookAhead(streamLength, written, maxSketchSpace)
                       THEN "lookahead" ELSE "write"
              /\ trace' = tr
              /\ ret' = ret
    /\ UNCHANGED <<freeSketchSpace, appPart, spiffsPart, dataSize, cb, streamLength, updType,
                   newPartition, maxSketchSpace, written, toWrite, length, readed,
                   retry, shortReads, buffer, verVars, extVars>>

\* resetPartitionRange(written + BLOCK_SIZE_P, BLOCK_SIZE_P), the look-ahead.
EraseNextRange ==
    /\ pc = "lookahead"
    /\ \E ok \in PartitionOutcomes(written + BLOCK_SIZE_P, BLOCK_SIZE_P) :
         LET tr == Append(trace, Event("erase", written + BLOCK_SIZE_P, BLOCK_SIZE_P, ok, "OK")) IN
         IF resetPartitionRange(ok) # "OK"
         THEN Abort(resetPartitionRange(ok), tr)
         ELSE /\ pc' = "write"
              /\ trace' = tr
              /\ ret' = ret
    /\ UNCHANGED <<freeSketchSpace, appPart, spiffsPart, dataSize, cb, streamLength, updType,
                   newPartition, maxSketchSpace, written, toWrite, length, readed,
                   retry, shortReads, buffer, verVars, extVars>>

\* writeBlockBufferToPartition(written, toWrite), the progress callback and
\* the next loop test.
WriteBlock ==
    /\ pc = "write"
    /\ \E ok \in PartitionOutcomes(written, toWrite) :
         LET tr == Append(trace, Event("write", written, toWrite, ok, "OK")) IN
         IF writeBlockBufferToPartition(ok) # "OK"
         THEN /\ Abort(writeBlockBufferToPartition(ok), tr)
              /\ UNCHANGED <<written, length, readed, retry, buffer>>
         ELSE /\ written' = written + toWrite
              /\ LoopTest(written + toWrite, streamLength,
                          tr \o callOnProgress(written + toWrite, streamLength))
              /\ ret' = ret
    /\ UNCHANGED <<freeSketchSpace, appPart, spiffsPart, dataSize, cb, streamLength, updType,
                   newPartition, maxSketchSpace, toWrite, shortReads, verVars, extVars>>

\* The code after the loop: the boot switch of a firmware update, onEnd.
FinishUpdate ==
    /\ pc = "boot"
    /\ \/ /\ NeedsBootSwitch(updType)
          /\ \E ok \in BOOLEAN :
               LET tr == Append(trace, Event("setBoot", 0, 0, ok, "OK")) IN
               IF changeBootPartition(ok) # "OK"
               THEN Abort(changeBootPartition(ok), tr)
               ELSE /\ trace' = tr \o callOnEnd
                    /\ ret' = "OK"
                    /\ pc' = "returned"
       \/ /\ ~NeedsBootSwitch(updType)
          /\ trace' = trace \o callOnEnd
          /\ ret' = "OK"
          /\ pc' = "returned"
    /\ UNCHANGED <<freeSketchSpace, appPart, spiffsPart, dataSize, cb, streamLength, updType,
                   newPartition, maxSketchSpace, written, toWrite, length, readed,
                   retry, shortReads, buffer, verVars, extVars>>

Next ==
    \/ setOnStartFunc
    \/ setOnProgressFunc
    \/ setOnEndFunc
    \/ setOnErrorFunc
    \/ StartUpdate
    \/ ReadBytes
    \/ EraseRange
    \/ EraseNextRange
    \/ WriteBlock
    \/ FinishUpdate

Spec == Init /\ [][Next]_vars

\* The Updater on a device that has an app partition to update and a data
\* partition, so that every call that passes the space check enters the
\* block loop.
InitLoop ==
    /\ freeSketchSpace \in FreeSpaces
    /\ appPart = TRUE
    /\ spiffsPart = TRUE
    /\ dataSize = DefaultDataSize
    /\ InitUpdater
    /\ InitVersion
    /\ InitExt

SpecLoop == InitLoop /\ [][Next]_vars

\* One startUpdate call of an Updater with no callback set, where every stream
\* read and every platform call that startUpdate has reached returns: the
\* code is sequential, readBytes returns at its timeout at the latest, and
\* the flash calls are synchronous.
NextLive ==
    \/ StartUpdate
    \/ ReadBytes
    \/ EraseRange
    \/ EraseNextRange
    \/ WriteBlock
    \/ FinishUpdate

SpecLive ==
    /\ Init
    /\ [][NextLive]_vars
    /\ WF_vars(ReadBytes)
    /\ WF_vars(EraseRange)
    /\ WF_vars(EraseNextRange)
    /\ WF_vars(WriteBlock)
    /\ WF_vars(FinishUpdate)

\* One startUpdate call on a device whose data partition has one of
\* DataSizes, with no callback set.
InitData ==
    /\ freeSketchSpace \in FreeSpaces
    /\ appPart = TRUE
    /\ spiffsPart = TRUE
    /\ dataSize \in DataSizes
    /\ InitUpdater
    /\ InitVersion
    /\ InitExt

SpecData == InitData /\ [][NextLive]_vars

\* ---------------------------------------------------------- newerVersion
\* Characters are one-character strings; NUL is the string terminator.
NUL == "NUL"

DigitChars == {"0", "1", "2", "3", "4", "5", "6", "7", "8", "9"}

DigitVal ==
    [c \in DigitChars |->
        CASE c = "0" -> 0 [] c = "1" -> 1 [] c = "2" -> 2 [] c = "3" -> 3
          [] c = "4" -> 4 [] c = "5" -> 5 [] c = "6" -> 6 [] c = "7" -> 7
          [] c = "8" -> 8 [] c = "9" -> 9]

\* The number of characters each loop of newerVersion scans.
SCAN_LEN == 32

\* The two scanning loops: a dot advances the field, any other character
\* (the terminator and what follows it included) is appended to the buffer of
\* the field, and characters after a third dot are dropped.
RECURSIVE SplitVersion(_, _, _, _)
SplitVersion(mem, i, dots, f) ==
    IF i > SCAN_LEN THEN f
    ELSE IF mem[i] = "." THEN SplitVersion(mem, i + 1, dots + 1, f)
    ELSE IF dots <= 2
         THEN SplitVersion(mem, i + 1, dots, [f EXCEPT ![dots + 1] = Append(@, mem[i])])
         ELSE SplitVersion(mem, i + 1, dots, f)

\* The size of each of the six field buffers of newerVersion.
FIELD_SIZE == 32

\* The k-th character of a field is stored at index k - 1 of its buffer and
\* the terminator at the index that is the length of the field: a field of
\* FIELD_SIZE characters has its terminator stored one byte past the buffer.
FieldOverflow(f) == \E k \in 1 .. 3 : Len(f[k]) >= FIELD_SIZE

\* atoi on a NUL-terminated buffer: white space, a sign, then the digits up to
\* the first other character.
RECURSIVE AtoiDigits(_, _, _)
AtoiDigits(buf, i, acc) ==
    IF i > Len(buf) \/ buf[i] \notin DigitChars THEN acc
    ELSE AtoiDigits(buf, i + 1, acc * 10 + DigitVal[buf[i]])

RECURSIVE AtoiFrom(_, _)
AtoiFrom(buf, i) ==
    IF i > Len(buf) THEN 0
    ELSE IF buf[i] = " " THEN AtoiFrom(buf, i + 1)
    ELSE IF buf[i] = "-" THEN 0 - AtoiDigits(buf, i + 1, 0)
    ELSE IF buf[i] = "+" THEN AtoiDigits(buf, i + 1, 0)
    ELSE AtoiDigits(buf, i, 0)

atoi(buf) == AtoiFrom(buf, 1)

CompareFieldsNoMajorGuard(c, s) ==
    IF atoi(c[1]) < atoi(s[1]) THEN TRUE
    ELSE IF atoi(c[2]) < atoi(s[2]) THEN TRUE
    ELSE IF atoi(c[2]) = atoi(s[2]) THEN atoi(c[3]) < atoi(s[3])
    ELSE FALSE

\* The comparison at the end of newerVersion.
CompareFields(c, s) ==
    IF atoi(c[1]) < atoi(s[1]) THEN TRUE
    ELSE IF atoi(c[1]) = atoi(s[1])
         THEN IF atoi(c[2]) < atoi(s[2]) THEN TRUE
              ELSE IF atoi(c[2]) = atoi(s[2]) THEN atoi(c[3]) < atoi(s[3])
              ELSE FALSE
         ELSE FALSE

\* Inputs.  A version argument is the memory at the pointer: the string, its
\* terminator, and whatever the bytes after the terminator hold.
DigitChar == <<"0", "1", "2", "3", "4", "5", "6", "7", "8", "9">>

RECURSIVE Dec(_)
Dec(n) == IF n < 10 THEN <<DigitChar[n + 1]>> ELSE Dec(n \div 10) \o <<DigitChar[(n % 10) + 1]>>

VersionNumbers == {0, 1, 2, 9, 10}

WellFormedVersions ==
    {Dec(a) \o <<".">> \o Dec(b) \o <<".">> \o Dec(c) :
        a \in VersionNumbers, b \in VersionNumbers, c \in VersionNumbers}

OddVersions ==
    { <<>>,
      <<"1">>,
      <<"1", ".", "2">>,
      <<"1", ".", "2", ".", "3", ".", "9">>,
      <<"x", ".", "1", ".", "0">>,
      <<"1", ".", "x", ".", "2">>,
      <<"0", "1", ".", "2", ".", "3">> }

AfterTerminator == { <<>>, <<".", "9">> }

Memory(str, after) ==
    [i \in 1 .. SCAN_LEN |->
        IF i <= Len(str) THEN str[i]
        ELSE IF i = Len(str) + 1 THEN NUL
        ELSE IF i <= Len(str) + 1 + Len(after) THEN after[i - Len(str) - 1]
        ELSE NUL]

\* The string at a pointer: the characters before the terminator.
RECURSIVE StringAt(_, _)
StringAt(mem, i) ==
    IF i > Len(mem) \/ mem[i] = NUL THEN <<>> ELSE <<mem[i]>> \o StringAt(mem, i + 1)

\* strlen on the bytes at a pointer: the index, from 0, of the first NUL.
strlen(mem) ==
    LET z == {i \in 1 .. Len(mem) : mem[i] = NUL}
    IN  IF z = {} THEN Len(mem) ELSE (CHOOSE i \in z : \A j \in z : i <= j) - 1

Memories ==
    {Memory(v, g) : v \in WellFormedVersions \cup OddVersions, g \in AfterTerminator}

InitVersionCall ==
    /\ freeSketchSpace = 0
    /\ appPart = FALSE
    /\ spiffsPart = FALSE
    /\ dataSize = 0
    /\ InitUpdater
    /\ curMem \in Memories
    /\ srvMem \in Memories
    /\ curFields = <<>>
    /\ srvFields = <<>>
    /\ vpc = "idle"
    /\ result = FALSE
    /\ InitExt

\* A store past the end of a field buffer is undefined: it changes a byte of
\* another local or of the frame, and the call returns either value or traps.
newerVersion ==
    /\ vpc = "idle"
    /\ curFields' = SplitVersion(curMem, 1, 0, <<<<>>, <<>>, <<>>>>)
    /\ srvFields' = SplitVersion(srvMem, 1, 0, <<<<>>, <<>>, <<>>>>)
    /\ IF FieldOverflow(curFields') \/ FieldOverflow(srvFields')
       THEN \/ vpc' = "done" /\ result' \in BOOLEAN
            \/ vpc' = "crashed" /\ result' = result
       ELSE /\ vpc' = "done"
            /\ result' = CompareFields(curFields', srvFields')
    /\ UNCHANGED <<curMem, srvMem, updVars, extVars>>

NextVersion == newerVersion

SpecVersion == InitVersionCall /\ [][NextVersion]_vars

\* ------------------------------------------------------- facade UpdateOTA

\* The size of the local versionDist of updateFirmaware and updateSPIFFS.
VERSION_DIST_LEN == 20

DownloaderErrors ==
    {"OK", "NO_URL_PROVIDED", "INVALID_ARGUMENT", "DOWNLOAD_FAILED", "SERVER_ERROR", "UNKNOWN"}

UpdaterErrors ==
    {"OK", "NO_PARTITION_AVAILABLE", "CHANGE_BOOT_PARTITION_FAILED",
     "PARTITION_WRITE_FAILED", "READ_FAILED", "NO_ENOUGH_SPACE", "UNKNOWN"}

\* What the methods of a DownloaderInterface may return.
SetCAOutcomes == {"OK", "INVALID_ARGUMENT"}

SetURLOutcomes(url) ==
    IF url = NullPtr \/ url = "" THEN {"INVALID_ARGUMENT"} ELSE {"OK", "INVALID_ARGUMENT"}

GetVersionOutcomes == DownloaderErrors

DownloadOutcomes == DownloaderErrors \ {"INVALID_ARGUMENT"}

\* Inputs of the facade.  A certificate argument is its strlen, -1 for null.
URLArgs == {NullPtr, "", "https://host/file"}

CertNull == -1

CertArgs == {CertNull, 0, 1, CA_MAX_LENGTH, CA_MAX_LENGTH + 1}

CurrentVersionArgs ==
    {NullVersion} \cup
    {VersionAt(Memory(v, g)) :
        v \in {<<>>, <<"1", ".", "2", ".", "0">>, <<"2", ".", "0", ".", "0">>},
        g \in AfterTerminator}

ServerVersions ==
    {<<"1", ".", "0", ".", "0">>, <<"1", ".", "2", ".", "0">>, <<"1", ".", "1", "0", ".", "0">>}

\* The 32 bytes newerVersion scans at versionDist: the 20 bytes of the array,
\* holding the string the downloader stored, and the 12 bytes of the stack
\* after the array.
VersionDistWindow(str, past) ==
    [i \in 1 .. SCAN_LEN |->
        IF i <= Len(str) THEN str[i]
        ELSE IF i <= VERSION_DIST_LEN THEN NUL
        ELSE IF i - VERSION_DIST_LEN <= Len(past) THEN past[i - VERSION_DIST_LEN]
        ELSE NUL]

VersionDistWindows ==
    {VersionDistWindow(v, g) : v \in ServerVersions, g \in AfterTerminator}

\* newerVersion(currentVersion, versionDist) as the facade calls it.
NewerVersion(cur, srv) ==
    CompareFields(SplitVersion(cur, 1, 0, <<<<>>, <<>>, <<>>>>),
                  SplitVersion(srv, 1, 0, <<<<>>, <<>>, <<>>>>))

InvalidURLNullOnly(url) == url = NullPtr

\* The test on the URL argument at the head of the three methods.
InvalidURL(url) == url = NullPtr \/ url = ""

\* The test on currentVersion that guards the version check.
VersionGiven(cur) == ~cur.null /\ strlen(cur.mem) # 0

ContinuesAlways(e) == TRUE

\* The facade goes on to its next stage when a collaborator returns OK.
Continues(e) == e = "OK"

StageFailureCarried(o, stage, e) == e

\* What a method returns when a collaborator call of it returns e, not OK.
StageFailure(o, stage, e) ==
    IF o = "getServerVersion" /\ stage = "getVersion" THEN "NO_NEW_VERSION" ELSE "UNKNOWN"

\* What a method returns when newerVersion is false.
NotNewer(o) == IF o = "updateFirmaware" THEN "NO_NEW_VERSION" ELSE "UNKNOWN"

\* The first stage after the certificate.
AfterCA(o, cur) ==
    IF o = "getServerVersion" \/ VersionGiven(cur) THEN "setURLForVersion" ELSE "setURLForBin"

UpdaterTypeOf(o) == IF o = "updateFirmaware" THEN "FIRMWARE" ELSE "SPIFFS"

CallRecord(c, a, e) == [call |-> c, arg |-> a, res |-> e]

\* The facade after its constructor, which leaves _cACertificate as it finds
\* it: empty or not.
InitFacade ==
    /\ freeSketchSpace = 0
    /\ appPart = FALSE
    /\ spiffsPart = FALSE
    /\ dataSize = 0
    /\ InitUpdater
    /\ InitVersion
    /\ cACertificate \in {0, 1}
    /\ IdleFacade
    /\ IdleMono
    /\ NoDownloader

setCACertificate ==
    /\ fpc = "idle"
    /\ \E cert \in CertArgs :
        IF cert = CertNull \/ cert > CA_MAX_LENGTH
        THEN /\ fret' = "UNKNOWN"
             /\ UNCHANGED cACertificate
        ELSE /\ cACertificate' = cert
             /\ fret' = IF cert = 0 THEN "INVALID_ARGUMENT" ELSE "OK"
    /\ UNCHANGED <<fop, urlArg, urlVersionArg, currentVersion, versionDist, fpc, calls,
                   updVars, verVars, monoVars, dlVars>>

\* The head of updateFirmaware, updateSPIFFS and getServerVersion: the test
\* on the URL and the choice of the first collaborator call.
Enter(o, url, urlV, cur) ==
    /\ fpc = "idle"
    /\ fop' = o
    /\ urlArg' = url
    /\ urlVersionArg' = urlV
    /\ currentVersion' = cur
    /\ IF InvalidURL(url)
       THEN /\ fpc' = "done"
            /\ fret' = "INVALID_ARGUMENT"
       ELSE /\ fpc' = IF cACertificate # 0 THEN "setCA" ELSE AfterCA(o, cur)
            /\ fret' = "NONE"

updateFirmaware ==
    \E url \in URLArgs, urlV \in URLArgs, cur \in CurrentVersionArgs :
        /\ Enter("updateFirmaware", url, urlV, cur)
        /\ UNCHANGED <<cACertificate, versionDist, calls, updVars, verVars, monoVars, dlVars>>

updateSPIFFS ==
    \E url \in URLArgs, urlV \in URLArgs, cur \in CurrentVersionArgs :
        /\ Enter("updateSPIFFS", url, urlV, cur)
        /\ UNCHANGED <<cACertificate, versionDist, calls, updVars, verVars, monoVars, dlVars>>

getServerVersion ==
    \E url \in URLArgs :
        /\ Enter("getServerVersion", url, NullPtr, NullVersion)
        /\ UNCHANGED <<cACertificate, versionDist, calls, updVars, verVars, monoVars, dlVars>>

\* One collaborator call and what the method does with its result e: it goes
\* on to the stage next, or returns.
Stage(stage, arg, e, next) ==
    /\ fpc = stage
    /\ calls' = Append(calls, CallRecord(stage, arg, e))
    /\ IF Continues(e)
       THEN /\ fpc' = next
            /\ fret' = IF next = "done" THEN "OK" ELSE fret
       ELSE /\ fpc' = "done"
            /\ fret' = StageFailure(fop, stage, e)
    /\ UNCHANGED <<cACertificate, fop, urlArg, urlVersionArg, currentVersion,
                   updVars, verVars, monoVars, dlVars>>

CallSetCA ==
    \E e \in SetCAOutcomes :
        /\ Stage("setCA", "cACertificate", e, AfterCA(fop, currentVersion))
        /\ UNCHANGED versionDist

CallSetURLForVersion ==
    \E e \in SetURLOutcomes(IF fop = "getServerVersion" THEN urlArg ELSE urlVersionArg) :
        /\ Stage("setURLForVersion",
                 IF fop = "getServerVersion" THEN urlArg ELSE urlVersionArg,
                 e, "getVersion")
        /\ UNCHANGED versionDist

\* getVersion and, in the two update methods, the newerVersion test on what
\* it stored.
CallGetVersion ==
    /\ fpc = "getVersion"
    /\ \E e \in GetVersionOutcomes, w \in VersionDistWindows :
        /\ calls' = Append(calls, CallRecord("getVersion", "versionDist", e))
        /\ IF ~Continues(e)
           THEN /\ fpc' = "done"
                /\ fret' = StageFailure(fop, "getVersion", e)
                /\ UNCHANGED versionDist
           ELSE /\ versionDist' = w
                /\ IF fop = "getServerVersion"
                   THEN fpc' = "done" /\ fret' = "OK"
                   ELSE IF NewerVersion(currentVersion.mem, w)
                        THEN fpc' = "setURLForBin" /\ fret' = fret
                        ELSE fpc' = "done" /\ fret' = NotNewer(fop)
    /\ UNCHANGED <<cACertificate, fop, urlArg, urlVersionArg, currentVersion,
                   updVars, verVars, monoVars, dlVars>>

CallSetURLForBin ==
    \E e \in SetURLOutcomes(urlArg) :
        /\ Stage("setURLForBin", urlArg, e, "download")
        /\ UNCHANGED versionDist

CallDownload ==
    \E e \in DownloadOutcomes :
        /\ Stage("download", "", e, "startUpdate")
        /\ UNCHANGED versionDist

CallStartUpdate ==
    \E e \in UpdaterErrors :
        /\ Stage("startUpdate", UpdaterTypeOf(fop), e, "done")
        /\ UNCHANGED versionDist

NextFacade ==
    \/ setCACertificate
    \/ updateFirmaware
    \/ updateSPIFFS
    \/ getServerVersion
    \/ CallSetCA
    \/ CallSetURLForVersion
    \/ CallGetVersion
    \/ CallSetURLForBin
    \/ CallDownload
    \/ CallStartUpdate

SpecFacade == InitFacade /\ [][NextFacade]_vars

\* --------------------------------------------- monolithic UpdateOTA (lib)
\* The most iterations of the loop of updateFirmware whose calls are recorded
\* in monoTrace; the loop itself goes on as the code does.
MaxMonoIter == 3

WifiStatuses == {"WL_CONNECTED", "WL_DISCONNECTED", "WL_IDLE_STATUS"}

\* What HTTPClient::GET() may return: a status, or a negative client error.
HttpCodes == {-1, 200, 301, 400, 401, 404, 500}

\* What HTTPClient::getSize() may return: the content length, -1 if unknown.
MonoSizes == {-1, 0, 5, 1808, BLOCK_SIZE_P, BLOCK_SIZE_P + 1808}

BufferSizes == {0, 5, 20}

NotConnectedNever(status) == FALSE

\* The test on WiFi.status() at the head of startUpdate and getVersionNumber.
NotConnected(status) == status # "WL_CONNECTED"

processGetRequestNoUnauthorized(code) ==
    CASE code = 200 -> "SUCCESS"
      [] code = 404 -> "PAGE_NOT_FOUND"
      [] code = 400 -> "BAD_REQUEST"
      [] OTHER -> "UNKNOWN"

\* The switch of processGetRequest on the result of GET().
processGetRequest(code) ==
    CASE code = 200 -> "SUCCESS"
      [] code = 404 -> "PAGE_NOT_FOUND"
      [] code = 401 -> "UNAUTHORIZED"
      [] code = 400 -> "BAD_REQUEST"
      [] OTHER -> "UNKNOWN"

\* getSize() > maxSketchSpace, the int converted to uint64_t.
MonoNoSpace(size, free) == size < 0 \/ size > MaxSketchSpace(free)

\* getSize() > bufferSize, both as int.
VersionNoSpace(size, bsize) == size > bsize

\* The length readBlockFromClientToBuffer asks of the stream.
MonoBlockLength(size, offset) ==
    IF size < offset + BLOCK_SIZE_P THEN size - offset ELSE BLOCK_SIZE_P

MonoReadOutcomes(n) == {0, n} \cup (IF ShortLen < n THEN {ShortLen} ELSE {})

MonoSelected(fw, app, spiffs) ==
    IF fw THEN (IF app THEN "app" ELSE "none") ELSE (IF spiffs THEN "spiffs" ELSE "none")

InitMono ==
    /\ InitPlatform
    /\ InitUpdater
    /\ InitVersion
    /\ InitExt

MonoReturn(e) == monoPc' = "returned" /\ monoRet' = e

UpdateOTA_startUpdate ==
    /\ monoPc = "idle"
    /\ \E fw \in BOOLEAN, st \in WifiStatuses :
        /\ monoOp' = "startUpdate"
        /\ isFirmware' = fw
        /\ wifiStatus' = st
        /\ IF NotConnected(st)
           THEN MonoReturn("NO_INTERNET")
           ELSE monoPc' = "get" /\ monoRet' = monoRet
    /\ UNCHANGED <<bufferSize, httpCode, httpSize, monoPartition, monoWritten, monoToWrite,
                   monoIter,
                   monoTrace, updVars, verVars, facVars, dlVars>>

UpdateOTA_getVersionNumber ==
    /\ monoPc = "idle"
    /\ \E bs \in BufferSizes, st \in WifiStatuses :
        /\ monoOp' = "getVersionNumber"
        /\ bufferSize' = bs
        /\ wifiStatus' = st
        /\ IF NotConnected(st)
           THEN MonoReturn("NO_INTERNET")
           ELSE monoPc' = "get" /\ monoRet' = monoRet
    /\ UNCHANGED <<isFirmware, httpCode, httpSize, monoPartition, monoWritten, monoToWrite,
                   monoIter,
                   monoTrace, updVars, verVars, facVars, dlVars>>

\* processGetRequest and the test on the size that follows it; in
\* getVersionNumber also the read into the buffer and its termination (a
\* store outside the buffer is undefined: the call returns, or traps).
ProcessGet ==
    /\ monoPc = "get"
    /\ \E code \in HttpCodes, size \in MonoSizes :
        LET get == Append(monoTrace, Event("GET", code, 0, TRUE, ""))
        IN  /\ httpCode' = code
            /\ IF processGetRequest(code) # "SUCCESS"
               THEN /\ MonoReturn(processGetRequest(code))
                    /\ monoTrace' = get
                    /\ UNCHANGED httpSize
               ELSE /\ httpSize' = size
                    /\ IF monoOp = "startUpdate"
                       THEN /\ monoTrace' = get
                            /\ IF MonoNoSpace(size, freeSketchSpace)
                               THEN MonoReturn("NO_ENOUGH_SPACE")
                               ELSE monoPc' = "select" /\ monoRet' = monoRet
                       ELSE IF VersionNoSpace(size, bufferSize)
                            THEN /\ monoTrace' = get
                                 /\ MonoReturn("NO_ENOUGH_SPACE")
                            ELSE /\ monoTrace' = get \o
                                       <<Event("readBytes", 0, size, TRUE, ""),
                                         Event("terminate", size, 0, TRUE, "")>>
                                 /\ \/ MonoReturn("SUCCESS")
                                    \/ /\ size < 0 \/ size >= bufferSize
                                       /\ monoPc' = "crashed"
                                       /\ monoRet' = monoRet
    /\ UNCHANGED <<monoOp, wifiStatus, isFirmware, bufferSize, monoPartition, monoWritten,
                   monoToWrite, monoIter, updVars, verVars, facVars, dlVars>>

MonoSelectPartition ==
    /\ monoPc = "select"
    /\ monoPartition' = MonoSelected(isFirmware, appPart, spiffsPart)
    /\ monoTrace' = Append(monoTrace, Event("select", 0, 0, monoPartition' # "none", ""))
    /\ IF monoPartition' = "none"
       THEN MonoReturn("NO_PARTITION_AVAILABLE")
       ELSE monoPc' = "loop" /\ monoRet' = monoRet
    /\ UNCHANGED <<monoOp, wifiStatus, isFirmware, bufferSize, httpCode, httpSize,
                   monoWritten, monoToWrite, monoIter,
                   updVars, verVars, facVars, dlVars>>

\* The calls of an iteration are recorded for the first MaxMonoIter iterations.
MonoRecord(evs) == IF monoIter < MaxMonoIter THEN monoTrace \o evs ELSE monoTrace

\* The head of an iteration of the loop of updateFirmware: the loop test and
\* readBlockFromClientToBuffer, whose result is not tested.
MonoReadBlock ==
    /\ monoPc = "loop"
    /\ monoWritten < httpSize
    /\ \E n \in MonoReadOutcomes(MonoBlockLength(httpSize, monoWritten)) :
        /\ monoToWrite' = n
        /\ monoTrace' = MonoRecord(<<Event("read", monoWritten, n, TRUE, "")>>)
    /\ monoPc' = "erase"
    /\ UNCHANGED <<monoOp, wifiStatus, isFirmware, bufferSize, httpCode, httpSize,
                   monoPartition, monoWritten, monoIter, monoRet,
                   updVars, verVars, facVars, dlVars>>

\* The rest of the iteration: the erase and the write, whose results are not
\* tested either, and written += toWrite.
MonoEraseWriteBlock ==
    /\ monoPc = "erase"
    /\ \E eok \in BOOLEAN, wok \in BOOLEAN :
        monoTrace' = MonoRecord(<<Event("erase", monoWritten, BLOCK_SIZE_P, eok, ""),
                                 Event("write", monoWritten, monoToWrite, wok, "")>>)
    /\ monoWritten' = monoWritten + monoToWrite
    /\ monoIter' = IF monoIter < MaxMonoIter THEN monoIter + 1 ELSE monoIter
    /\ monoPc' = "loop"
    /\ UNCHANGED <<monoOp, wifiStatus, isFirmware, bufferSize, httpCode, httpSize,
                   monoPartition, monoToWrite, monoRet,
                   updVars, verVars, facVars, dlVars>>

\* The end of updateFirmware and what startUpdate does with its result.
MonoFinish ==
    /\ monoPc = "loop"
    /\ ~(monoWritten < httpSize)
    /\ IF httpSize # monoWritten THEN MonoReturn("UPDATE_PROGRESS_ERROR")
       ELSE IF ~isFirmware THEN MonoReturn("SUCCESS")
       ELSE monoPc' = "boot" /\ monoRet' = monoRet
    /\ UNCHANGED <<monoOp, wifiStatus, isFirmware, bufferSize, httpCode, httpSize,
                   monoPartition, monoWritten, monoToWrite,
                   monoIter, monoTrace, updVars, verVars,
                   facVars, dlVars>>

MonoChangeBoot ==
    /\ monoPc = "boot"
    /\ \E ok \in BOOLEAN :
        IF ~ok
        THEN /\ monoTrace' = Append(monoTrace, Event("boot", 0, 0, FALSE, ""))
             /\ MonoReturn("PARTITION_NOT_BOOTABLE")
        ELSE /\ monoTrace' = monoTrace \o
                   <<Event("boot", 0, 0, TRUE, ""), Event("restart", 0, 0, TRUE, "")>>
             /\ monoPc' = "restarted"
             /\ monoRet' = monoRet
    /\ UNCHANGED <<monoOp, wifiStatus, isFirmware, bufferSize, httpCode, httpSize,
                   monoPartition, monoWritten, monoToWrite,
                   monoIter, updVars, verVars, facVars, dlVars>>

NextMono ==
    \/ UpdateOTA_startUpdate
    \/ UpdateOTA_getVersionNumber
    \/ ProcessGet
    \/ MonoSelectPartition
    \/ MonoReadBlock
    \/ MonoEraseWriteBlock
    \/ MonoFinish
    \/ MonoChangeBoot

SpecMono == InitMono /\ [][NextMono]_vars

\* The monolithic UpdateOTA where every call that a method has reached
\* returns: the code is sequential and the stream read returns at its timeout
\* at the latest.
SpecMonoLive ==
    /\ InitMono
    /\ [][NextMono]_vars
    /\ WF_vars(ProcessGet)
    /\ WF_vars(MonoSelectPartition)
    /\ WF_vars(MonoReadBlock)
    /\ WF_vars(MonoEraseWriteBlock)
    /\ WF_vars(MonoFinish)
    /\ WF_vars(MonoChangeBoot)

\* -------------------------------------------------------------- Downloader
\* The most download and getVersion calls that are followed.
MaxRequests == 1

\* The most setURLForBin and setURLForVersion calls that are followed.
MaxSetURL == 2

\* URL arguments: digits in a pattern that starts at k, n characters long.
MakeURL(n, k) == [i \in 1 .. n |-> DigitChar[((i + k) % 10) + 1]]

URLLengths == {0, 10, URL_MAX_LENGTH - 1, URL_MAX_LENGTH, URL_MAX_LENGTH + 1}

URLInputs == {NullURL} \cup {URLAt(MakeURL(n, n % 7)) : n \in URLLengths}

\* Arguments of getVersion and what the server sends as the version file.
MaxLens == {-1, 0, 4}

NewLine == "\n"

VersionBodies ==
    { <<>>,
      <<NewLine, "9">>,
      <<"5", ".", "1", ".", "1", NewLine>>,
      <<"1", ".", "2", ".", "3">> }

\* What HTTPClient::getSize() may return to the Downloader.
StreamSizes == {-1, 0, 5}

UrlLengthNoLimit(str) == Len(str)

\* urlLength of setURLForBin and setURLForVersion.
UrlLength(str) == IF Len(str) < URL_MAX_LENGTH THEN Len(str) ELSE URL_MAX_LENGTH

\* strncpy(buf, str, n) with n <= strlen(str), then buf[n] = '\0' (index n
\* from 0); a write past the end of the buffer is not a write to the buffer.
StoreURL(buf, str) ==
    LET n == UrlLength(str)
    IN  [i \in DOMAIN buf |->
            IF i <= n THEN str[i] ELSE IF i = n + 1 THEN NUL ELSE buf[i]]

\* What HTTPClient::GET() may return to the Downloader.
GetResults == {-1, 200, 404}

NotOKNever(code) == FALSE

\* httpCode != HTTP_CODE_OK
NotOK(code) == code # 200

InvalidVersionArgsNullOnly(given, maxLen) == ~given

\* The two tests on the arguments at the head of getVersion.
InvalidVersionArgs(given, maxLen) == ~given \/ maxLen <= 0

\* readBytesUntil('\n', versionDis, maxLen) into the zero-filled buffer: the
\* characters before the first new line, maxLen of them at most.
RECURSIVE UntilNewLine(_, _)
UntilNewLine(body, i) ==
    IF i > Len(body) \/ body[i] = NewLine THEN <<>>
    ELSE <<body[i]>> \o UntilNewLine(body, i + 1)

ReadVersion(body, maxLen) ==
    LET line == UntilNewLine(body, 1)
    IN  [i \in 1 .. maxLen |-> IF i <= Len(line) THEN line[i] ELSE NUL]

InitDownloader ==
    /\ freeSketchSpace = 0
    /\ appPart = FALSE
    /\ spiffsPart = FALSE
    /\ dataSize = 0
    /\ InitUpdater
    /\ InitVersion
    /\ cACertificate = 0
    /\ IdleFacade
    /\ IdleMono
    /\ IdleDownloader

DlReturn(e) == dpc' = "idle" /\ dret' = e

setURLForBin ==
    /\ dpc = "idle"
    /\ setCalls < MaxSetURL
    /\ setCalls' = setCalls + 1
    /\ \E u \in URLInputs :
        /\ urlGiven' = u
        /\ IF u.null
           THEN /\ dret' = "INVALID_ARGUMENT"
                /\ UNCHANGED uRLForBinFile
           ELSE /\ uRLForBinFile' = StoreURL(uRLForBinFile, u.str)
                /\ dret' = IF strlen(uRLForBinFile') = 0 THEN "INVALID_ARGUMENT" ELSE "OK"
    /\ dop' = "setURLForBin"
    /\ dtrace' = <<>>
    /\ UNCHANGED <<uRLForVersionFile, bufGiven, streamSize, versionDis, maxLenArg, requests,
                   wifiClients, httpClients, dpc, timeOut, timeOutArg, downloaderCA, caGiven,
                   updVars, verVars, facVars, monoVars>>

setURLForVersion ==
    /\ dpc = "idle"
    /\ setCalls < MaxSetURL
    /\ setCalls' = setCalls + 1
    /\ \E u \in URLInputs :
        /\ urlGiven' = u
        /\ IF u.null
           THEN /\ dret' = "INVALID_ARGUMENT"
                /\ UNCHANGED uRLForVersionFile
           ELSE /\ uRLForVersionFile' = StoreURL(uRLForVersionFile, u.str)
                /\ dret' = IF strlen(uRLForVersionFile') = 0 THEN "INVALID_ARGUMENT" ELSE "OK"
    /\ dop' = "setURLForVersion"
    /\ dtrace' = <<>>
    /\ UNCHANGED <<uRLForBinFile, bufGiven, streamSize, versionDis, maxLenArg, requests,
                   wifiClients, httpClients, dpc, timeOut, timeOutArg, downloaderCA, caGiven,
                   updVars, verVars, facVars, monoVars>>

\* Arguments of setTimeout as the caller writes them (an int).
TimeOutArgs == {-1, 0, 49, 50, 60000, 60001}

\* The conversion of an int argument to the uint16_t parameter.
ToUint16(t) == t % 65536

TimeOutOutOfRangeLowOnly(t) == t < 50

\* The range test of setTimeout.
TimeOutOutOfRange(t) == t < 50 \/ t > 60000

setTimeout ==
    /\ dpc = "idle"
    /\ setCalls < MaxSetURL
    /\ setCalls' = setCalls + 1
    /\ \E t \in TimeOutArgs :
        /\ timeOutArg' = t
        /\ IF TimeOutOutOfRange(ToUint16(t))
           THEN /\ dret' = "INVALID_ARGUMENT"
                /\ UNCHANGED timeOut
           ELSE /\ timeOut' = ToUint16(t)
                /\ dret' = "OK"
    /\ dop' = "setTimeout"
    /\ dtrace' = <<>>
    /\ UNCHANGED <<uRLForBinFile, uRLForVersionFile, urlGiven, bufGiven, streamSize,
                   versionDis, maxLenArg, requests, wifiClients, httpClients, dpc,
                   downloaderCA, caGiven,
                   updVars, verVars, facVars, monoVars>>

\* strlen(_cACertificate): the index, from 0, of the first terminator.  With
\* no terminator in the array the scan runs past it; whatever it finds there,
\* the length is more than CA_MAX_LENGTH, and the code only tests it against 0.
strlenCA(buf) ==
    LET z == {i \in CABlocks : buf[i] = NUL}
    IN  IF z = {} THEN CA_MAX_LENGTH + 1 ELSE (CHOOSE i \in z : \A j \in z : i <= j) - 1

\* strncpy(_cACertificate, cACertificate, strlen(cACertificate)): the
\* characters of the argument and nothing after them (strncpy adds no
\* terminator when the source has n characters or more).  Called for
\* arguments shorter than CA_MAX_LENGTH only.
strncpyCA(buf, cert) == [i \in CABlocks |-> IF i <= cert.len THEN cert.fill ELSE buf[i]]

\* Arguments of setCA: null, the empty string, certificates of 1, 2 (two of
\* them), CA_MAX_LENGTH - 1 and CA_MAX_LENGTH characters.
CACerts ==
    {NullCert} \cup
    {CertAt(0, "a"), CertAt(1, "a"), CertAt(2, "b"), CertAt(2, "d"),
     CertAt(CA_MAX_LENGTH - 1, "c"), CertAt(CA_MAX_LENGTH, "e")}

setCA ==
    /\ dpc = "idle"
    /\ setCalls < MaxSetURL
    /\ setCalls' = setCalls + 1
    /\ \E c \in CACerts :
        /\ caGiven' = c
        /\ IF c.null \/ c.len >= CA_MAX_LENGTH
           THEN /\ dret' = "INVALID_ARGUMENT"
                /\ UNCHANGED downloaderCA
           ELSE /\ downloaderCA' = strncpyCA(downloaderCA, c)
                /\ dret' = IF strlenCA(downloaderCA') = 0 THEN "INVALID_ARGUMENT" ELSE "OK"
    /\ dop' = "setCA"
    /\ dtrace' = <<>>
    /\ UNCHANGED <<uRLForBinFile, uRLForVersionFile, urlGiven, bufGiven, streamSize,
                   versionDis, maxLenArg, requests, wifiClients, httpClients, dpc,
                   timeOut, timeOutArg, updVars, verVars, facVars, monoVars>>

\* CreateWifiClient and CreateHttpClient, whose begin() may fail.  Both store
\* a new object in the member pointer, whatever it held.
CreateClients(ok) ==
    /\ wifiClients' = wifiClients + 1
    /\ httpClients' = httpClients + 1
    /\ dtrace' = <<Event(IF strlenCA(downloaderCA) > 0
                         THEN "new WiFiClientSecure" ELSE "new WiFiClient", 0, 0, TRUE, ""),
                   Event("new HTTPClient", 0, 0, TRUE, ""),
                   Event("begin", 0, 0, ok, "")>>
    /\ IF ok THEN dpc' = "get" /\ dret' = "NONE" ELSE DlReturn("UNKNOWN")

\* download(), whatever the number of requests before it.
Download ==
    /\ dpc = "idle"
    /\ requests' = requests + 1
    /\ dop' = "download"
    /\ IF strlen(uRLForBinFile) = 0
       THEN /\ DlReturn("NO_URL_PROVIDED")
            /\ dtrace' = <<>>
            /\ UNCHANGED <<wifiClients, httpClients>>
       ELSE \E ok \in BOOLEAN : CreateClients(ok)
    /\ UNCHANGED <<uRLForBinFile, uRLForVersionFile, urlGiven, bufGiven, streamSize,
                   versionDis, maxLenArg, setCalls, timeOut, timeOutArg, downloaderCA, caGiven,
                   updVars, verVars, facVars, monoVars>>

download == requests < MaxRequests /\ Download

\* getVersion(versionDis, maxLen), whatever the number of requests before it.
GetVersion ==
    /\ dpc = "idle"
    /\ requests' = requests + 1
    /\ dop' = "getVersion"
    /\ \E given \in BOOLEAN, maxLen \in MaxLens :
        /\ bufGiven' = given
        /\ maxLenArg' = maxLen
        /\ IF InvalidVersionArgs(given, maxLen)
           THEN /\ DlReturn("INVALID_ARGUMENT")
                /\ dtrace' = <<>>
                /\ UNCHANGED <<versionDis, wifiClients, httpClients>>
           ELSE /\ versionDis' = [i \in 1 .. maxLen |-> NUL]
                /\ IF strlen(uRLForVersionFile) = 0
                   THEN /\ DlReturn("NO_URL_PROVIDED")
                        /\ dtrace' = <<>>
                        /\ UNCHANGED <<wifiClients, httpClients>>
                   ELSE \E ok \in BOOLEAN : CreateClients(ok)
    /\ UNCHANGED <<uRLForBinFile, uRLForVersionFile, urlGiven, streamSize, setCalls,
                   timeOut, timeOutArg, downloaderCA, caGiven,
                   updVars, verVars, facVars, monoVars>>

getVersion == requests < MaxRequests /\ GetVersion

\* The GET of download and getVersion and the test on its result.
HttpGet ==
    /\ dpc = "get"
    /\ \E code \in GetResults :
        /\ dtrace' = Append(dtrace, Event("GET", code, 0, TRUE, ""))
        /\ IF NotOK(code) THEN DlReturn("SERVER_ERROR") ELSE dpc' = "size" /\ dret' = dret
    /\ UNCHANGED <<uRLForBinFile, uRLForVersionFile, urlGiven, bufGiven, streamSize,
                   versionDis, maxLenArg, requests, setCalls, wifiClients, httpClients,
                   dop, timeOut, timeOutArg, downloaderCA, caGiven,
                   updVars, verVars, facVars, monoVars>>

\* getSize() and what follows it: the end of download, or in getVersion the
\* read of the first line of the body.
GetSize ==
    /\ dpc = "size"
    /\ \E size \in StreamSizes, body \in VersionBodies :
        /\ streamSize' = size
        /\ IF size <= 0
           THEN /\ DlReturn("DOWNLOAD_FAILED")
                /\ dtrace' = Append(dtrace, Event("getSize", size, 0, TRUE, ""))
                /\ UNCHANGED versionDis
           ELSE IF dop = "download"
           THEN /\ DlReturn("OK")
                /\ dtrace' = Append(dtrace, Event("getSize", size, 0, TRUE, ""))
                /\ UNCHANGED versionDis
           ELSE /\ versionDis' = ReadVersion(body, maxLenArg)
                /\ dtrace' = dtrace \o <<Event("getSize", size, 0, TRUE, ""),
                                         Event("readBytesUntil", maxLenArg, 0, TRUE, "")>>
                /\ DlReturn(IF strlen(versionDis') = 0 THEN "DOWNLOAD_FAILED" ELSE "OK")
    /\ UNCHANGED <<uRLForBinFile, uRLForVersionFile, urlGiven, bufGiven, maxLenArg,
                   requests, setCalls, wifiClients, httpClients, dop,
                   timeOut, timeOutArg, downloaderCA, caGiven,
                   updVars, verVars, facVars, monoVars>>

NextDownloader ==
    \/ setURLForBin
    \/ setURLForVersion
    \/ setTimeout
    \/ download
    \/ getVersion
    \/ HttpGet
    \/ GetSize

SpecDownloader == InitDownloader /\ [][NextDownloader]_vars

\* ~Downloader: the HTTP client and the WiFi client the member pointers hold,
\* if any, are deleted, the WiFi client as the kind _cACertificate now asks for.
DownloaderDestructor ==
    /\ dpc = "idle"
    /\ dpc' = "destroyed"
    /\ dop' = "~Downloader"
    /\ httpClients' = IF httpClients > 0 THEN httpClients - 1 ELSE 0
    /\ wifiClients' = IF wifiClients > 0 THEN wifiClients - 1 ELSE 0
    /\ dtrace' =
          (IF httpClients > 0 THEN <<Event("delete HTTPClient", 0, 0, TRUE, "")>> ELSE <<>>)
          \o (IF wifiClients > 0
              THEN <<Event(IF strlenCA(downloaderCA) > 0
                           THEN "delete WiFiClientSecure" ELSE "delete WiFiClient",
                           0, 0, TRUE, "")>>
              ELSE <<>>)
    /\ UNCHANGED <<uRLForBinFile, uRLForVersionFile, urlGiven, bufGiven, streamSize,
                   versionDis, maxLenArg, requests, setCalls, dret,
                   timeOut, timeOutArg, downloaderCA, caGiven,
                   updVars, verVars, facVars, monoVars>>

\* A Downloader with a URL stored for the image and for the version file,
\* in memory that held zeros or anything: the certificate is set, requests
\* follow one another (one more than SpecDownloader follows), and the
\* Downloader is destroyed.
InitClients ==
    /\ freeSketchSpace = 0
    /\ appPart = FALSE
    /\ spiffsPart = FALSE
    /\ dataSize = 0
    /\ InitUpdater
    /\ InitVersion
    /\ cACertificate = 0
    /\ IdleFacade
    /\ IdleMono
    /\ uRLForBinFile = StoreURL(EmptyURLBuffer, MakeURL(10, 3))
    /\ uRLForVersionFile = StoreURL(EmptyURLBuffer, MakeURL(10, 3))
    /\ downloaderCA \in {EmptyCABuffer(NUL), EmptyCABuffer(Unset)}
    /\ RestOfDownloader

NextClients ==
    \/ setCA
    \/ requests <= MaxRequests /\ Download
    \/ requests <= MaxRequests /\ GetVersion
    \/ HttpGet
    \/ GetSize
    \/ DownloaderDestructor

SpecClients == InitClients /\ [][NextClients]_vars

\* ------------------------------------------------------------ properties
RECURSIVE SumLen(_)
SumLen(s) == IF s = <<>> THEN 0 ELSE Head(s).b + SumLen(Tail(s))

Ops(op) == SelectSeq(trace, LAMBDA e : e.op = op)

Min(a, b) == IF a < b THEN a ELSE b

\* The block sizes of an image of len bytes cut at multiples of 4096.
RECURSIVE BlockSizes(_)
BlockSizes(len) ==
    IF len <= 0 THEN <<>> ELSE <<Min(4096, len)>> \o BlockSizes(len - Min(4096, len))

\* The running totals of a sequence of sizes, from total t.
RECURSIVE Cumulative(_, _)
Cumulative(t, s) ==
    IF s = <<>> THEN <<>> ELSE <<t + Head(s)>> \o Cumulative(t + Head(s), Tail(s))

Destructive == {i \in DOMAIN trace : trace[i].op \in {"erase", "write"}}

\* The space check and the partition selection of this call both passed.
PreflightPassed ==
    /\ pc # "idle"
    /\ ~(streamLength < 0)
    /\ streamLength <= (freeSketchSpace \div 4096) * 4096
    /\ \/ updType = "FIRMWARE" /\ appPart
       \/ updType = "SPIFFS" /\ spiffsPart

NoPartitionForKind ==
    \/ updType = "FIRMWARE" /\ ~appPart
    \/ updType = "SPIFFS" /\ ~spiffsPart

\* C1: a block is read at most 30 times; a non-zero read after fewer than 30
\* zero reads is accepted (the call goes on to the erase), and the call fails
\* with READ_FAILED exactly when 30 reads in a row returned zero bytes.
C1_ReadCeiling ==
    /\ retry <= 30
    /\ pc = "read" => readed = 0 /\ retry < 30
    /\ pc \in {"erase", "lookahead", "write"} => readed > 0 /\ toWrite = readed
    /\ (retry = 30 /\ readed = 0) => pc = "returned" /\ ret = "READ_FAILED"
    /\ ret = "READ_FAILED" => retry = 30 /\ readed = 0
    /\ ( /\ pc = "returned"
         /\ PreflightPassed
         /\ ~(retry = 30 /\ readed = 0)
         /\ \A i \in DOMAIN trace : trace[i].ok ) => ret = "OK"

C1_Witness == pc = "returned" /\ ret = "READ_FAILED" /\ retry = 30 /\ written > 0

\* C2: startUpdate returns OK only with every byte of the stream written; a
\* block whose reads returned zero bytes never ends the transfer.
C2_OKOnlyWhenComplete ==
    (pc = "returned" /\ ret = "OK") =>
        /\ written = streamLength
        /\ SumLen(SelectSeq(trace, LAMBDA e : e.op = "write" /\ e.ok)) = streamLength
        /\ streamLength > 0 => readed > 0

C2_Witness ==
    pc = "returned" /\ ret = "OK" /\ streamLength = 10000 /\ retry > 1

\* C3: a successful call makes ceil(streamLength / 4096) writes, and every write
\* is of min(4096, streamLength - written) bytes at offset written.
C3_FullBlockWrites ==
    (pc = "returned" /\ ret = "OK") =>
        /\ Len(Ops("write")) = (streamLength + 4095) \div 4096
        /\ \A i \in DOMAIN trace :
             trace[i].op = "write" => trace[i].b = Min(4096, streamLength - trace[i].a)

\* C4: a stream longer than maxSketchSpace is refused with NO_ENOUGH_SPACE and
\* no erase or write call is made.
C4_NoSpaceNoDestructiveCall ==
    (pc # "idle" /\ streamLength > (freeSketchSpace \div 4096) * 4096) =>
        /\ pc = "returned"
        /\ ret = "NO_ENOUGH_SPACE"
        /\ Destructive = {}

C4_Witness ==
    /\ pc = "returned"
    /\ ret = "NO_ENOUGH_SPACE"
    /\ streamLength > 0
    /\ streamLength <= freeSketchSpace

\* C5 as stated: with no partition for the requested kind the call returns
\* NO_PARTITION_AVAILABLE and onStart is not invoked.
C5_Original ==
    (pc = "returned" /\ NoPartitionForKind) =>
        /\ ret = "NO_PARTITION_AVAILABLE"
        /\ Ops("onStart") = <<>>

\* C5 amended: with no partition for the requested kind the call returns
\* NO_PARTITION_AVAILABLE unless the stream exceeds maxSketchSpace (the space
\* check comes first and returns NO_ENOUGH_SPACE); in both cases onStart is not
\* invoked and nothing is erased or written.
C5_NoPartition ==
    (pc # "idle" /\ NoPartitionForKind) =>
        /\ pc = "returned"
        /\ ret = IF streamLength < 0 \/ streamLength > (freeSketchSpace \div 4096) * 4096
                 THEN "NO_ENOUGH_SPACE" ELSE "NO_PARTITION_AVAILABLE"
        /\ Ops("onStart") = <<>>
        /\ Destructive = {}

C5_Witness ==
    /\ pc = "returned"
    /\ ret = "NO_PARTITION_AVAILABLE"
    /\ cb.onStart
    /\ streamLength > 0

\* C6: the boot switch is attempted once in a firmware call whose transfer
\* completed, after the last write, and never in a data-partition call or in
\* a call that failed before the transfer completed.
C6_BootSwitchOnce ==
    LET boots == {i \in DOMAIN trace : trace[i].op = "setBoot"}
        okWrites == SelectSeq(trace, LAMBDA e : e.op = "write" /\ e.ok)
        completed == PreflightPassed /\ SumLen(okWrites) = streamLength
    IN  /\ Cardinality(boots) <= 1
        /\ updType # "FIRMWARE" => boots = {}
        /\ (pc = "returned" /\ updType = "FIRMWARE" /\ completed) => Cardinality(boots) = 1
        /\ \A i \in boots :
             /\ completed
             /\ \A j \in DOMAIN trace :
                  trace[j].op \in {"readBlock", "erase", "write"} => j < i /\ trace[j].ok

C6_Witness ==
    /\ pc = "returned"
    /\ updType = "FIRMWARE"
    /\ Len(Ops("setBoot")) = 1
    /\ Len(Ops("write")) = 3

\* C7: a write the platform rejects ends the call with PARTITION_WRITE_FAILED;
\* no read, erase, write or boot switch follows it.
C7_WriteFailureTerminal ==
    \A i \in DOMAIN trace :
        (trace[i].op = "write" /\ ~trace[i].ok) =>
            /\ pc = "returned"
            /\ ret = "PARTITION_WRITE_FAILED"
            /\ \A j \in DOMAIN trace : j > i => trace[j].op = "onError"

C7_Witness ==
    /\ Len(Ops("write")) = 2
    /\ ~Ops("write")[2].ok
    /\ cb.onError

\* C8: a rejected boot switch ends the call with CHANGE_BOOT_PARTITION_FAILED
\* and onEnd is not invoked.
C8_BootSwitchRejected ==
    \A i \in DOMAIN trace :
        (trace[i].op = "setBoot" /\ ~trace[i].ok) =>
            /\ pc = "returned"
            /\ ret = "CHANGE_BOOT_PARTITION_FAILED"
            /\ Ops("onEnd") = <<>>

C8_Witness ==
    /\ Ops("setBoot") # <<>>
    /\ ~Ops("setBoot")[1].ok
    /\ cb.onEnd
    /\ written = 10000

\* The case of C9: a successful call on a stream of at least one byte that
\* returned every block in full, with the progress and end callbacks set.
C9_Case ==
    /\ pc = "returned"
    /\ ret = "OK"
    /\ streamLength > 0
    /\ shortReads = 0
    /\ cb.onProgress
    /\ cb.onEnd

\* C9 as stated: 10000 bytes make writes of 4096, 4096, 1808 and the progress
\* callback is invoked with 4096, 8192, 10000 (the totals after each write),
\* then onEnd.
C9_Original ==
    C9_Case =>
        /\ [i \in DOMAIN Ops("write") |-> Ops("write")[i].b] = BlockSizes(streamLength)
        /\ [i \in DOMAIN Ops("onProgress") |-> Ops("onProgress")[i].a]
               = Cumulative(0, BlockSizes(streamLength))
        /\ trace[Len(trace)].op = "onEnd"

\* C9 amended: the progress callback is first invoked with 0 and then with the
\* total after each write: 0, 4096, 8192, 10000 for 10000 bytes, written as
\* 4096, 4096, 1808; onEnd follows.
C9_ProgressSequence ==
    C9_Case =>
        /\ [i \in DOMAIN Ops("write") |-> Ops("write")[i].b] = BlockSizes(streamLength)
        /\ [i \in DOMAIN Ops("onProgress") |-> Ops("onProgress")[i].a]
               = <<0>> \o Cumulative(0, BlockSizes(streamLength))
        /\ \A i \in DOMAIN Ops("onProgress") : Ops("onProgress")[i].b = streamLength
        /\ trace[Len(trace)].op = "onEnd"
        /\ Len(Ops("onEnd")) = 1
        /\ streamLength = 10000 =>
             /\ [i \in DOMAIN Ops("write") |-> Ops("write")[i].b] = <<4096, 4096, 1808>>
             /\ [i \in DOMAIN Ops("onProgress") |-> Ops("onProgress")[i].a]
                    = <<0, 4096, 8192, 10000>>

C9_Witness == C9_Case /\ streamLength = 10000

\* The value of a string of decimal digits.
RECURSIVE Value(_)
Value(d) ==
    IF d = <<>> THEN 0 ELSE 10 * Value(SubSeq(d, 1, Len(d) - 1)) + DigitVal[d[Len(d)]]

\* The triple a well-formed version string (digits, dot, digits, dot, digits)
\* denotes.
DotsOf(str) == {i \in DOMAIN str : str[i] = "."}

WellFormed(str) ==
    /\ Cardinality(DotsOf(str)) = 2
    /\ \A i \in DOMAIN str : str[i] \in DigitChars \cup {"."}
    /\ \A i \in DotsOf(str) : i > 1 /\ i < Len(str) /\ (i + 1) \notin DotsOf(str)

TripleOf(str) ==
    LET d1 == CHOOSE i \in DotsOf(str) : \A j \in DotsOf(str) : i <= j
        d2 == CHOOSE i \in DotsOf(str) : \A j \in DotsOf(str) : j <= i
    IN  <<Value(SubSeq(str, 1, d1 - 1)),
          Value(SubSeq(str, d1 + 1, d2 - 1)),
          Value(SubSeq(str, d2 + 1, Len(str)))>>

\* Strictly greater in the lexicographic order of triples.
LexGreater(s, c) ==
    \/ s[1] > c[1]
    \/ s[1] = c[1] /\ s[2] > c[2]
    \/ s[1] = c[1] /\ s[2] = c[2] /\ s[3] > c[3]

IsCall(c, s) == vpc = "done" /\ StringAt(curMem, 1) = c /\ StringAt(srvMem, 1) = s

\* C10: newerVersion is true exactly when the server's (major, minor, patch)
\* is strictly greater than the current one, as integers in lexicographic
\* order: both for the numbers the fields parse to and, for dotted triplets of
\* decimal numbers, for the numbers the strings denote.
C10_NewerIffGreater ==
    vpc = "done" =>
        /\ result = LexGreater(<<atoi(srvFields[1]), atoi(srvFields[2]), atoi(srvFields[3])>>,
                               <<atoi(curFields[1]), atoi(curFields[2]), atoi(curFields[3])>>)
        /\ (WellFormed(StringAt(curMem, 1)) /\ WellFormed(StringAt(srvMem, 1))) =>
             result = LexGreater(TripleOf(StringAt(srvMem, 1)), TripleOf(StringAt(curMem, 1)))
        /\ IsCall(<<"1", ".", "0", ".", "0">>, <<"1", ".", "0", ".", "0">>) => ~result
        /\ IsCall(<<"1", ".", "0", ".", "0">>, <<"1", ".", "0", ".", "1">>) => result
        /\ IsCall(<<"1", ".", "2", ".", "0">>, <<"1", ".", "1", "0", ".", "0">>) => result
        /\ IsCall(<<"2", ".", "0", ".", "0">>, <<"1", ".", "9", ".", "9">>) => ~result

C10_Witness ==
    /\ IsCall(<<"1", ".", "2", ".", "0">>, <<"1", ".", "1", "0", ".", "0">>)
    /\ result

\* The numbers a version string denotes under the stated rule: the string is
\* split on dots, a missing or non-numeric field is 0, and the characters
\* after a third dot are ignored.
RECURSIVE StatedFields(_, _, _, _)
StatedFields(str, i, dots, f) ==
    IF i > Len(str) THEN f
    ELSE IF str[i] = "." THEN StatedFields(str, i + 1, dots + 1, f)
    ELSE IF dots <= 2
         THEN StatedFields(str, i + 1, dots, [f EXCEPT ![dots + 1] = Append(@, str[i])])
         ELSE StatedFields(str, i + 1, dots, f)

StatedTriple(str) ==
    LET f == StatedFields(str, 1, 0, <<<<>>, <<>>, <<>>>>)
    IN  <<atoi(f[1]), atoi(f[2]), atoi(f[3])>>

ParsedTriple(f) == <<atoi(f[1]), atoi(f[2]), atoi(f[3])>>

\* C11: in newerVersion a missing or non-numeric field counts as 0 and the
\* characters after a third dot are ignored: "1" is compared as 1.0.0, "1.2"
\* as 1.2.0 and "1.2.3.9" as 1.2.3, for the current and for the server
\* version.
C11_MissingFieldsAreZero ==
    vpc = "done" =>
        /\ ParsedTriple(curFields) = StatedTriple(StringAt(curMem, 1))
        /\ ParsedTriple(srvFields) = StatedTriple(StringAt(srvMem, 1))
        /\ StringAt(curMem, 1) = <<"1">> => ParsedTriple(curFields) = <<1, 0, 0>>
        /\ StringAt(curMem, 1) = <<"1", ".", "2">> => ParsedTriple(curFields) = <<1, 2, 0>>
        /\ StringAt(curMem, 1) = <<"1", ".", "2", ".", "3", ".", "9">> =>
             ParsedTriple(curFields) = <<1, 2, 3>>

\* ------------------------------------------------------- facade properties
CallNames == [i \in 1 .. Len(calls) |-> calls[i].call]

Called(c) == \E i \in 1 .. Len(calls) : calls[i].call = c

UpdateOp == fop \in {"updateFirmaware", "updateSPIFFS"}

LastCall == calls[Len(calls)]

\* The version check ran and the server's version is not strictly greater
\* than the current one.
ServerNotNewer ==
    /\ VersionGiven(currentVersion)
    /\ Called("getVersion")
    /\ versionDist # <<>>
    /\ ~LexGreater(StatedTriple(StringAt(versionDist, 1)),
                   StatedTriple(StringAt(currentVersion.mem, 1)))

\* C12: updateFirmaware and updateSPIFFS, given a non-empty current version
\* and a server version that is not strictly newer, return NO_NEW_VERSION
\* without calling download or startUpdate.
C12_NotNewerIsNoNewVersion ==
    (fpc = "done" /\ UpdateOp /\ ServerNotNewer) =>
        /\ fret = "NO_NEW_VERSION"
        /\ ~Called("download")
        /\ ~Called("startUpdate")

StageFailed == fpc = "done" /\ UpdateOp /\ calls # <<>> /\ LastCall.res # "OK"

\* C13 as stated: a failing stage of updateFirmaware or updateSPIFFS has its
\* own error code returned by the facade.
C13_Original == StageFailed => fret = LastCall.res

\* C13: a failing stage of updateFirmaware or updateSPIFFS ends the call with
\* UNKNOWN, whatever the error code of the stage was; the two methods return
\* nothing but OK, INVALID_ARGUMENT, NO_NEW_VERSION and UNKNOWN.
C13_StageFailureIsUnknown ==
    /\ StageFailed => fret = "UNKNOWN"
    /\ (fpc = "done" /\ UpdateOp) =>
          fret \in {"OK", "INVALID_ARGUMENT", "NO_NEW_VERSION", "UNKNOWN"}

C13_Witness ==
    /\ StageFailed
    /\ LastCall.call = "startUpdate"
    /\ LastCall.res = "NO_ENOUGH_SPACE"
    /\ fret = "UNKNOWN"

\* The collaborator calls of a complete update, in order.
ExpectedCalls ==
    (IF cACertificate # 0 THEN <<"setCA">> ELSE <<>>)
    \o (IF VersionGiven(currentVersion) THEN <<"setURLForVersion", "getVersion">> ELSE <<>>)
    \o <<"setURLForBin", "download", "startUpdate">>

IsPrefix(p, q) == Len(p) <= Len(q) /\ \A i \in 1 .. Len(p) : p[i] = q[i]

\* C14: the collaborator calls of one updateFirmaware or updateSPIFFS call are
\* a prefix of setCA (with a stored certificate), setURLForVersion, getVersion
\* (with a non-empty currentVersion), setURLForBin, download, startUpdate; a
\* call that fails is the last one, and a call that returns OK made them all.
C14_CallsArePrefix ==
    UpdateOp =>
        /\ IsPrefix(CallNames, ExpectedCalls)
        /\ \A i \in 1 .. Len(calls) : calls[i].res # "OK" => i = Len(calls) /\ fpc = "done"
        /\ (fpc = "done" /\ fret = "OK") => CallNames = ExpectedCalls

C14_Witness ==
    /\ StageFailed
    /\ CallNames = <<"setCA", "setURLForVersion", "getVersion", "setURLForBin", "download">>

\* C15: updateFirmaware, updateSPIFFS and getServerVersion return
\* INVALID_ARGUMENT for a null or empty URL argument, without a call on the
\* downloader or the updater.
C15_InvalidURLRejected ==
    (fop # "none" /\ (urlArg = NullPtr \/ urlArg = "")) =>
        /\ fpc = "done"
        /\ fret = "INVALID_ARGUMENT"
        /\ calls = <<>>
        /\ pc = "idle"

C15_Witness ==
    /\ fop = "updateSPIFFS"
    /\ urlArg = ""
    /\ cACertificate # 0
    /\ VersionGiven(currentVersion)
    /\ fret = "INVALID_ARGUMENT"

\* --------------------------------------------------- monolithic properties
MonoOps(op) == SelectSeq(monoTrace, LAMBDA e : e.op = op)

NoPartitionTouched ==
    /\ MonoOps("select") = <<>>
    /\ MonoOps("erase") = <<>>
    /\ MonoOps("write") = <<>>
    /\ MonoOps("boot") = <<>>
    /\ monoPartition = "none"

\* C16: startUpdate and getVersionNumber of the monolithic UpdateOTA return
\* NO_INTERNET whenever Wi-Fi is not connected, with no HTTP request and no
\* partition selected, erased or written.
C16_NoInternet ==
    (monoOp # "none" /\ wifiStatus # "WL_CONNECTED") =>
        /\ monoPc = "returned"
        /\ monoRet = "NO_INTERNET"
        /\ MonoOps("GET") = <<>>
        /\ NoPartitionTouched
        /\ monoTrace = <<>>

C16_Witness ==
    /\ monoOp = "getVersionNumber"
    /\ wifiStatus = "WL_DISCONNECTED"
    /\ monoRet = "NO_INTERNET"

\* The result the stated table gives for a status.
StatedResult(code) ==
    IF code = 200 THEN "SUCCESS"
    ELSE IF code = 404 THEN "PAGE_NOT_FOUND"
    ELSE IF code = 401 THEN "UNAUTHORIZED"
    ELSE IF code = 400 THEN "BAD_REQUEST"
    ELSE "UNKNOWN"

\* C17: in the monolithic UpdateOTA the status of the GET maps 200 to SUCCESS,
\* 404 to PAGE_NOT_FOUND, 401 to UNAUTHORIZED, 400 to BAD_REQUEST and any
\* other to UNKNOWN; on a result other than SUCCESS the method returns that
\* code, and startUpdate has not selected, erased or written a partition.
C17_HttpStatusMapping ==
    /\ (MonoOps("GET") # <<>> /\ httpCode # 200) =>
          /\ Len(MonoOps("GET")) = 1
          /\ MonoOps("GET")[1].a = httpCode
          /\ monoPc = "returned"
          /\ monoRet = StatedResult(httpCode)
          /\ monoRet # "SUCCESS"
          /\ NoPartitionTouched
    /\ (MonoOps("GET") # <<>> /\ httpCode = 200) =>
          monoRet \notin {"PAGE_NOT_FOUND", "UNAUTHORIZED", "BAD_REQUEST", "UNKNOWN"}

C17_Witness ==
    /\ monoOp = "startUpdate"
    /\ httpCode = 401
    /\ monoRet = "UNAUTHORIZED"

\* --------------------------------------------------- Downloader properties
DlOps(op) == SelectSeq(dtrace, LAMBDA e : e.op = op)

\* The URL buffer a method of the Downloader works on.
BufferOf(op) ==
    IF op \in {"download", "setURLForBin"} THEN uRLForBinFile ELSE uRLForVersionFile

NoClientNoRequest ==
    /\ DlOps("new WiFiClient") = <<>>
    /\ DlOps("new HTTPClient") = <<>>
    /\ DlOps("begin") = <<>>
    /\ DlOps("GET") = <<>>
    /\ requests = 1 => wifiClients = 0 /\ httpClients = 0

\* C19: getVersion returns INVALID_ARGUMENT for a null buffer or a maxLen
\* that is not positive, with or without a version URL, and NO_URL_PROVIDED
\* for valid arguments when no non-empty version URL is set; in both cases
\* it creates no client and sends no request.
C19_GetVersionArguments ==
    dop = "getVersion" =>
        /\ (~bufGiven \/ maxLenArg <= 0) =>
              /\ dpc = "idle"
              /\ dret = "INVALID_ARGUMENT"
              /\ NoClientNoRequest
        /\ (bufGiven /\ maxLenArg > 0 /\ strlen(uRLForVersionFile) = 0) =>
              /\ dpc = "idle"
              /\ dret = "NO_URL_PROVIDED"
              /\ NoClientNoRequest

C19_Witness ==
    /\ dop = "getVersion"
    /\ bufGiven
    /\ maxLenArg = 0
    /\ strlen(uRLForVersionFile) > 0
    /\ dret = "INVALID_ARGUMENT"

\* C20: setURLForBin and setURLForVersion return INVALID_ARGUMENT for a null
\* or empty URL and OK for a non-empty one, and after OK the buffer holds the
\* first URL_MAX_LENGTH characters of the URL at most, followed by a NUL
\* inside the buffer.
C20_SetURL ==
    dop \in {"setURLForBin", "setURLForVersion"} =>
        /\ (urlGiven.null \/ urlGiven.str = <<>>) => dret = "INVALID_ARGUMENT"
        /\ (~urlGiven.null /\ urlGiven.str # <<>>) =>
              /\ dret = "OK"
              /\ \E i \in DOMAIN BufferOf(dop) : BufferOf(dop)[i] = NUL
              /\ strlen(BufferOf(dop)) = Min(Len(urlGiven.str), URL_MAX_LENGTH)
              /\ \A i \in 1 .. strlen(BufferOf(dop)) : BufferOf(dop)[i] = urlGiven.str[i]

C20_Witness ==
    /\ dop = "setURLForVersion"
    /\ ~urlGiven.null
    /\ Len(urlGiven.str) = URL_MAX_LENGTH + 1
    /\ dret = "OK"
    /\ strlen(uRLForVersionFile) = URL_MAX_LENGTH

\* C21: setTimeout(t), with t taken as a 16-bit unsigned value (-1 is 65535),
\* returns OK and stores t when 50 <= t <= 60000, and otherwise returns
\* INVALID_ARGUMENT and leaves the stored timeout as it was.
C21_SetTimeout ==
    [][ (dop' = "setTimeout" /\ setCalls' = setCalls + 1) =>
            LET t == IF timeOutArg' < 0 THEN timeOutArg' + 65536 ELSE timeOutArg'
            IN  IF 50 <= t /\ t <= 60000
                THEN dret' = "OK" /\ timeOut' = t
                ELSE dret' = "INVALID_ARGUMENT" /\ timeOut' = timeOut ]_vars

C21_Witness ==
    /\ dop = "setTimeout"
    /\ timeOutArg = -1
    /\ dret = "INVALID_ARGUMENT"
    /\ timeOut = 60000

\* ------------------------------------------- Updater properties, block loop
\* C22: in every iteration of the block loop the write at offset written comes
\* after a successful erase of [written, written + 4096) of the same
\* iteration (the call before it, or the one before the look-ahead erase),
\* and a failed erase ends the call with no write after it.
C22_EraseBeforeWrite ==
    /\ \A i \in DOMAIN trace :
          trace[i].op = "write" =>
              \E j \in {i - 2, i - 1} \cap DOMAIN trace :
                  /\ trace[j].op = "erase"
                  /\ trace[j].ok
                  /\ trace[j].a = trace[i].a
                  /\ trace[j].b = 4096
                  /\ \A k \in j .. i : trace[k].op # "readBlock"
    /\ \A j \in DOMAIN trace :
          (trace[j].op = "erase" /\ ~trace[j].ok) =>
              /\ pc = "returned"
              /\ ret = "UNKNOWN"
              /\ \A k \in DOMAIN trace : k > j => trace[k].op = "onError"

C22_Witness ==
    /\ Len(Ops("write")) = 1
    /\ \E j \in DOMAIN trace :
          /\ j > 1
          /\ trace[j].op = "erase"
          /\ ~trace[j].ok
          /\ trace[j].a = 4096
          /\ trace[j - 1].op = "readBlock"

\* The look-ahead erases of the call: an erase that follows an erase.
LookAheads ==
    {i \in DOMAIN trace : i > 1 /\ trace[i].op = "erase" /\ trace[i - 1].op = "erase"}

\* The capacity the space check uses.
Capacity == (freeSketchSpace \div 4096) * 4096

\* C23: whenever the look-ahead erase is issued, its range
\* [written + 4096, written + 8192) ends at or below the capacity used by the
\* space check.
C23_LookAheadWithinCapacity ==
    /\ pc = "lookahead" => written + 8192 <= Capacity
    /\ \A i \in DOMAIN trace :
          (i > 1 /\ trace[i].op = "erase" /\ trace[i - 1].op = "erase") =>
              /\ trace[i].a = trace[i - 1].a + 4096
              /\ trace[i].b = 4096
              /\ trace[i].a + trace[i].b <= Capacity

C23_Witness ==
    /\ LookAheads # {}
    /\ pc = "returned"
    /\ ret = "OK"
    /\ streamLength = 8192

\* C24: whenever the current block is the final block of the image and one
\* more block of capacity remains beyond it, the following block's range is
\* erased in that iteration too, and the look-ahead erase is issued in no
\* other iteration.
C24_LookAheadWhenRoomRemains ==
    /\ ( /\ pc = "write"
         /\ written + toWrite = streamLength
         /\ written + 8192 <= Capacity ) =>
            /\ Len(trace) \in LookAheads
            /\ trace[Len(trace)].a = written + 4096
    /\ \A i \in LookAheads :
          /\ streamLength <= trace[i - 1].a + 4096
          /\ trace[i - 1].a + 8192 <= Capacity

\* C25: the whole buffer is cleared before each block read, so at every
\* partition write the bytes the read of this iteration did not overwrite are
\* zero and the others are the bytes of the stream that follow the written
\* ones.
C25_BufferCleared ==
    pc \in {"erase", "lookahead", "write"} =>
        \A i \in BufferSamples :
            buffer[i] = IF i <= toWrite THEN written + i ELSE 0

C25_Witness ==
    /\ pc = "write"
    /\ written = 4096
    /\ toWrite = ShortLen

\* C26: the writes of a call are contiguous and in order: each starts at the
\* sum of the lengths of the earlier writes, and the total written never
\* exceeds streamLength.
C26_ContiguousWrites ==
    LET w == Ops("write")
    IN  /\ \A i \in DOMAIN w :
              /\ w[i].a = SumLen(SubSeq(w, 1, i - 1))
              /\ w[i].a + w[i].b <= streamLength
        /\ PreflightPassed => written <= streamLength
        /\ written = SumLen(SelectSeq(w, LAMBDA e : e.ok))

C26_Witness ==
    /\ pc = "returned"
    /\ ret = "OK"
    /\ shortReads = 1
    /\ Len(Ops("write")) = 4

InLoop == pc \in {"read", "erase", "lookahead", "write"}

\* C27: startUpdate terminates for every behaviour of the stream and of the
\* platform calls: a block is read 30 times at most, an iteration that does
\* not end the call adds at least one byte to written, the loop is left with
\* written = streamLength or with an error, and every call that entered the
\* loop returns.
C27_Terminates ==
    /\ [](retry <= 30)
    /\ [][(pc = "read" /\ pc' = "read") => retry' = retry + 1]_vars
    /\ [][(pc = "write" /\ pc' # "returned") => written' > written]_vars
    /\ [](pc = "boot" => written = streamLength)
    /\ []((pc = "returned" /\ PreflightPassed) => (ret # "OK" \/ written = streamLength))
    /\ (InLoop ~> pc = "returned")

C27_Witness ==
    /\ pc = "returned"
    /\ ret = "OK"
    /\ retry = 30
    /\ shortReads = 1
    /\ Len(Ops("readBlock")) = 4

\* C30: a startUpdate call ends with exactly one terminal callback, the last
\* callback of the call: onEnd exactly when it returns OK, onError with the
\* returned code exactly when it returns an error, never both (a callback is
\* invoked when it is registered; a call of a hook that is not set does
\* nothing).
C30_OneTerminalCallback ==
    /\ pc # "returned" => Ops("onEnd") = <<>> /\ Ops("onError") = <<>>
    /\ pc = "returned" =>
          /\ Len(Ops("onEnd")) = IF ret = "OK" /\ cb.onEnd THEN 1 ELSE 0
          /\ Len(Ops("onError")) = IF ret # "OK" /\ cb.onError THEN 1 ELSE 0
          /\ \A i \in DOMAIN trace : trace[i].op = "onError" => trace[i].code = ret
          /\ \A i \in DOMAIN trace :
                trace[i].op \in {"onEnd", "onError"} => i = Len(trace)
          /\ Ops("onEnd") = <<>> \/ Ops("onError") = <<>>

C30_Witness ==
    /\ pc = "returned"
    /\ ret = "UNKNOWN"
    /\ cb.onEnd
    /\ cb.onError
    /\ written = 4096
    /\ trace[Len(trace)].op = "onError"

\* ------------------------------------- monolithic properties, block loop
\* C28: the monolithic startUpdate switches the boot partition and restarts
\* only after a complete, successful transfer: every erase and every write
\* succeeded and the bytes written equal the stream length.
C28_BootAfterSuccessfulTransfer ==
    MonoOps("boot") # <<>> =>
        /\ monoWritten = httpSize
        /\ \A i \in DOMAIN monoTrace :
              monoTrace[i].op \in {"erase", "write"} => monoTrace[i].ok

\* C29: the loop of the monolithic updateFirmware has a retry ceiling, so
\* updateFirmware terminates for every stream behaviour, reads that keep
\* returning zero bytes included.
C29_UpdateFirmwareTerminates ==
    (monoPc \in {"loop", "erase"}) ~> (monoPc \notin {"loop", "erase"})

\* ------------------------------------------------ Updater properties, start
\* C31: onStart is invoked at most once per startUpdate call, exactly when
\* the space check and the partition selection have both succeeded, and
\* before any stream read, erase, write or onProgress of that call (a
\* callback is invoked when it is registered).
C31_OnStartOnceAndFirst ==
    /\ Len(Ops("onStart")) = IF PreflightPassed /\ cb.onStart THEN 1 ELSE 0
    /\ \A i \in DOMAIN trace : trace[i].op = "onStart" => i = 1

C31_Witness ==
    /\ cb.onStart
    /\ cb.onProgress
    /\ trace # <<>>
    /\ trace[1].op = "onStart"
    /\ Len(Ops("onProgress")) = 3
    /\ Len(Ops("write")) = 2
    /\ pc = "returned"

\* -------------------------------------- Updater properties, data partition
\* C32: in a SPIFFS update every erase and write range issued by startUpdate
\* lies within the selected data partition, and an image longer than the
\* data partition is rejected before any erase or write.
C32_DataRangesWithinPartition ==
    (pc # "idle" /\ updType = "SPIFFS") =>
        /\ \A i \in Destructive : trace[i].a + trace[i].b <= dataSize
        /\ streamLength > dataSize => Destructive = {}

\* -------------------------------------------- Updater properties, offsets
\* C33: every erase offset and every write offset issued by the block loop
\* is a multiple of the 4096-byte block size, for every stream behaviour,
\* reads that return fewer bytes than requested included.
C33_OffsetsBlockAligned ==
    \A i \in Destructive : trace[i].a % BLOCK_SIZE_P = 0

\* ----------------------------------------- Updater properties, empty image
\* C34: startUpdate never attempts the boot-partition switch in a call that
\* wrote zero bytes; a FIRMWARE call with streamLength 0 does not change the
\* boot target.
C34_NoBootSwitchWithoutWrite ==
    Ops("setBoot") # <<>> => written > 0 /\ Ops("write") # <<>>

\* ------------------------------------------- newerVersion properties, bounds
\* C35: in newerVersion every index written in the 32-byte major, minor and
\* patch buffers, the index of the terminating NUL included, is at most 31
\* for all inputs, a 32-character scan window without a dot included.  The
\* largest index written in a buffer is that of its terminator, the length
\* of the field.
C35_FieldIndexesInBounds ==
    vpc # "idle" =>
        \A k \in 1 .. 3 :
            /\ Len(curFields[k]) <= FIELD_SIZE - 1
            /\ Len(srvFields[k]) <= FIELD_SIZE - 1

\* C36: newerVersion never reads a byte of an input beyond its terminator
\* (at most the string and its NUL are scanned and copied), so the bytes that
\* follow the terminator cannot change the result.
C36_NoReadPastTerminator ==
    vpc = "done" =>
        /\ Len(curFields[1]) + Len(curFields[2]) + Len(curFields[3]) <= strlen(curMem) + 1
        /\ Len(srvFields[1]) + Len(srvFields[2]) + Len(srvFields[3]) <= strlen(srvMem) + 1
        /\ ~(FieldOverflow(curFields) \/ FieldOverflow(srvFields)) =>
              result = NewerVersion(Memory(StringAt(curMem, 1), <<>>),
                                    Memory(StringAt(srvMem, 1), <<>>))

\* ------------------------------------------- Downloader properties, clients
\* C37: after any sequence of getVersion and download calls on one
\* Downloader at most one WiFi client and one HTTP client allocated by it are
\* live (a new request releases or reuses the previous pair), and the
\* destructor releases whatever remains.
C37_OneLivePairOfClients ==
    /\ wifiClients <= 1
    /\ httpClients <= 1
    /\ dpc = "destroyed" => wifiClients = 0 /\ httpClients = 0

\* C38: after any sequence of setCA calls the stored certificate is the
\* argument of the last call that returned OK, in particular when a shorter
\* certificate is set after a longer one.
C38_StoredIsLastAccepted ==
    (dop = "setCA" /\ dret = "OK") =>
        /\ strlenCA(downloaderCA) = caGiven.len
        /\ \A i \in CABlocks : i <= caGiven.len => downloaderCA[i] = caGiven.fill

\* ------------------------------------ monolithic properties, version buffer
\* C39: the monolithic getVersionNumber writes only to buffer[0 ..
\* bufferSize - 1] for every content length the server reports, a length
\* equal to bufferSize and a negative one included; whenever the body and its
\* terminating NUL do not fit it returns NO_ENOUGH_SPACE without writing.
C39_VersionBufferInBounds ==
    monoOp = "getVersionNumber" =>
        /\ \A i \in DOMAIN monoTrace :
              /\ monoTrace[i].op = "readBytes" =>
                    0 <= monoTrace[i].b /\ monoTrace[i].b <= bufferSize
              /\ monoTrace[i].op = "terminate" =>
                    0 <= monoTrace[i].a /\ monoTrace[i].a <= bufferSize - 1
        /\ (MonoOps("GET") # <<>> /\ processGetRequest(httpCode) = "SUCCESS"
              /\ (httpSize < 0 \/ httpSize + 1 > bufferSize)) =>
              /\ monoRet = "NO_ENOUGH_SPACE"
              /\ MonoOps("readBytes") = <<>>
              /\ MonoOps("terminate") = <<>>
=============================================================================
